---------------------------- MODULE Spec2Model ----------------------------
(***************************************************************************)
(* Wiggers-Graaf: a Klotski sliding-block puzzle explorer.                 *)
(*                                                                         *)
(* The module models the board (src/src/board/mod.rs), the state graph     *)
(* and its breadth-first labelling (src/src/graph/mod.rs) and the solver   *)
(* that discovers every reachable board (src/src/solver.rs).               *)
(***************************************************************************)
EXTENDS Integers, Sequences, FiniteSets, TLC

VARIABLES
    graph,             \* Solver.graph: [map, max_distance_to_start, max_distance_to_solution]
    start_board,       \* Solver.start_board (analyze's `start`)
    solution_node,     \* Solver.solution_node (analyze's `solution`)
    inspection_queue,  \* the work queue of generate_moves / of distance_from
    max_distance_from, \* distance_from's running maximum
    pc,                \* position in Solver::new / in the harness
    board,             \* board harness: the board the board functions are applied to
    op,                \* board harness: the last function applied
    slide_move,        \* board harness: the argument of the last make_move
    result,            \* harness: what the last call returned or, for a call on the
                       \* graph, what it was given
    valid_moves,       \* board harness: what the last get_valid_moves returned
    steps,             \* board harness: moves played so far
    edges_added,       \* graph harness: add_edge calls made so far
    played,            \* play harness: the moves made and the boards they gave
    collision,         \* the boards the hasher maps to one and the same id
    ui                 \* WiggersGraaf besides its solver: the move lock, what the views
                       \* show, and the last call of the page with what it returned

vars == <<graph, start_board, solution_node, inspection_queue, max_distance_from, pc,
          board, op, slide_move, result, valid_moves, steps, edges_added, played,
          collision, ui>>

---------------------------------------------------------------------------
(* Bounds of the model *)

\* distances 0..MaxDistance are tried as make_move arguments (SlideMove.distance is a u8)
MaxDistance == 5
\* the board harness plays at most MaxSteps moves from its initial board
MaxSteps == 1
\* Solver::new is run on the first NumLayouts entries of Layouts
NumLayouts == 3
\* the graph harness makes at most MaxEdges add_edge calls
MaxEdges == 3
\* the play harness makes at most MaxPlays moves from its initial board
MaxPlays == 4

\* pointer events forwarded by the board view's Controls in one run
MaxEvents == 4
MaxTimeouts == 1

---------------------------------------------------------------------------
(* Board model: src/src/board/mod.rs *)

Coordinates(x, y) == [x |-> x, y |-> y]
Size(x, y) == [x |-> x, y |-> y]
Piece(x, y, w, h) == [position |-> Coordinates(x, y), size |-> Size(w, h)]

\* Standard Klotski board is 4 by 5 tiles
SIZE == Size(4, 5)

\* enum SlideDirection, in declaration order
SlideDirections == <<"Up", "Down", "Left", "Right">>

SlideMove(start, direction, distance) ==
    [start |-> start, direction |-> direction, distance |-> distance]

\* #[derive(PartialOrd, Ord)] on Piece: position (x, then y), then size (x, then y)
piece_lt(a, b) ==
    \/ a.position.x < b.position.x
    \/ /\ a.position.x = b.position.x
       /\ \/ a.position.y < b.position.y
          \/ /\ a.position.y = b.position.y
             /\ \/ a.size.x < b.size.x
                \/ /\ a.size.x = b.size.x
                   /\ a.size.y < b.size.y

\* insertion of one piece into a sorted sequence, after the pieces not greater than it
RECURSIVE insert_sorted(_, _)
insert_sorted(p, s) ==
    IF s = <<>> THEN <<p>>
    ELSE IF piece_lt(p, Head(s)) THEN <<p>> \o s
    ELSE <<Head(s)>> \o insert_sorted(p, Tail(s))

\* pieces.sort(): a stable sort by the derived order
RECURSIVE sort(_)
sort(s) == IF s = <<>> THEN <<>> ELSE insert_sorted(s[Len(s)], sort(SubSeq(s, 1, Len(s) - 1)))

\* impl Hash for Board feeds the pieces, in array order, and then the size to the
\* hasher; the id is modelled as that stream: the hasher gives two streams two ids,
\* except for the boards of `collision`, which it gives one and the same id
to_id(b) == IF b \in collision THEN <<"collision">> ELSE <<b.pieces, b.size>>

\* impl PartialEq for Board
board_eq(a, b) == a.size = b.size /\ a.pieces = b.pieces

\* get_endpoint with Down adding to y as Up does
get_endpoint_down_adds(m) ==
    CASE m.direction = "Up" -> Coordinates(m.start.x, m.start.y + m.distance)
      [] m.direction = "Down" -> Coordinates(m.start.x, m.start.y + m.distance)
      [] m.direction = "Left" -> Coordinates(m.start.x - m.distance, m.start.y)
      [] m.direction = "Right" -> Coordinates(m.start.x + m.distance, m.start.y)

get_endpoint(m) ==
    CASE m.direction = "Up" -> Coordinates(m.start.x, m.start.y + m.distance)
      [] m.direction = "Down" -> Coordinates(m.start.x, m.start.y - m.distance)
      [] m.direction = "Left" -> Coordinates(m.start.x - m.distance, m.start.y)
      [] m.direction = "Right" -> Coordinates(m.start.x + m.distance, m.start.y)

get_start_board ==
    [size |-> SIZE,
     pieces |-> sort(<<Piece(0, 3, 1, 2), Piece(1, 3, 2, 2), Piece(3, 3, 1, 2),
                       Piece(0, 1, 1, 2), Piece(1, 2, 2, 1), Piece(3, 1, 1, 2),
                       Piece(1, 1, 1, 1), Piece(2, 1, 1, 1), Piece(0, 0, 1, 1),
                       Piece(3, 0, 1, 1)>>)]

\* get_solved_board returning an arrangement of the ten pieces of the puzzle with
\* the 2x2 piece at (1,0)
get_solved_board_real ==
    [size |-> SIZE,
     pieces |-> sort(<<Piece(0, 0, 1, 1), Piece(0, 1, 1, 2), Piece(0, 3, 2, 1),
                       Piece(0, 4, 1, 1), Piece(1, 0, 2, 2), Piece(1, 4, 1, 1),
                       Piece(2, 3, 1, 2), Piece(3, 0, 1, 2), Piece(3, 2, 1, 2),
                       Piece(3, 4, 1, 1)>>)]

get_solved_board ==
    [size |-> SIZE,
     pieces |-> sort(<<Piece(0, 0, 1, 1), Piece(1, 0, 2, 2), Piece(0, 1, 1, 1),
                       Piece(0, 2, 1, 1), Piece(0, 3, 1, 1), Piece(0, 4, 1, 1),
                       Piece(3, 0, 1, 1), Piece(3, 1, 1, 1), Piece(3, 2, 1, 1),
                       Piece(3, 3, 1, 1)>>)]

\* is_solution looking at the position only
is_solution_any_size(b) ==
    \E i \in 1..Len(b.pieces) :
        b.pieces[i].position.x = 1 /\ b.pieces[i].position.y = 0

is_solution(b) ==
    \E i \in 1..Len(b.pieces) :
        /\ b.pieces[i].size.x = 2 /\ b.pieces[i].size.y = 2
        /\ b.pieces[i].position.x = 1 /\ b.pieces[i].position.y = 0

\* is_on_board without the two lower bounds
is_on_board_upper_only(piece, b) ==
    /\ piece.position.x + piece.size.x <= b.size.x
    /\ piece.position.y + piece.size.y <= b.size.y

is_on_board(piece, b) ==
    /\ 0 <= piece.position.x
    /\ piece.position.x + piece.size.x <= b.size.x
    /\ 0 <= piece.position.y
    /\ piece.position.y + piece.size.y <= b.size.y

\* collide with pieces that touch along an edge counted as colliding
collide_touching(a, b) ==
    /\ a.position.x + a.size.x >= b.position.x
    /\ a.position.x <= b.position.x + b.size.x
    /\ a.position.y + a.size.y >= b.position.y
    /\ a.position.y <= b.position.y + b.size.y

collide(a, b) ==
    /\ a.position.x + a.size.x > b.position.x
    /\ a.position.x < b.position.x + b.size.x
    /\ a.position.y + a.size.y > b.position.y
    /\ a.position.y < b.position.y + b.size.y

has_collision(b) ==
    \E i \in 1..Len(b.pieces) : \E j \in (i + 1)..Len(b.pieces) :
        collide(b.pieces[i], b.pieces[j])

\* is_valid without the collision test
is_valid_on_board_only(b) == \A i \in 1..Len(b.pieces) : is_on_board(b.pieces[i], b)

is_valid(b) ==
    /\ \A i \in 1..Len(b.pieces) : is_on_board(b.pieces[i], b)
    /\ ~has_collision(b)

\* Result<Board>: Ok(board) or Err(message)
Ok(b) == [ok |-> TRUE, board |-> b, err |-> ""]
Err(msg) == [ok |-> FALSE, board |-> <<>>, err |-> msg]

\* find_piece taking the first piece that covers the cell `start`
find_piece_covering(b, start) ==
    LET hits == {i \in 1..Len(b.pieces) :
                    /\ b.pieces[i].position.x <= start.x
                    /\ start.x < b.pieces[i].position.x + b.pieces[i].size.x
                    /\ b.pieces[i].position.y <= start.y
                    /\ start.y < b.pieces[i].position.y + b.pieces[i].size.y}
    IN  IF hits = {} THEN 0 ELSE CHOOSE i \in hits : \A j \in hits : i <= j

\* index of the first piece whose position is `start`, 0 when there is none
find_piece(b, start) ==
    LET hits == {i \in 1..Len(b.pieces) : b.pieces[i].position = start}
    IN  IF hits = {} THEN 0 ELSE CHOOSE i \in hits : \A j \in hits : i <= j

\* new_board_of without the sort after the move
new_board_of_unsorted(b, i, m) ==
    [size |-> b.size, pieces |-> [b.pieces EXCEPT ![i].position = get_endpoint(m)]]

\* new_board of make_move once piece i has been moved and the pieces sorted again
\* new_board_of that also makes the moved piece a 1x1 piece
new_board_of_shrinks(b, i, m) ==
    [size |-> b.size,
     pieces |-> sort([b.pieces EXCEPT ![i] = Piece(get_endpoint(m).x, get_endpoint(m).y,
                                                   1, 1)])]

new_board_of(b, i, m) ==
    [size |-> b.size, pieces |-> sort([b.pieces EXCEPT ![i].position = get_endpoint(m)])]

make_move(b, m) ==
    LET i == find_piece(b, m.start)
    IN  IF i = 0 THEN Err("No piece to move")
        ELSE LET new_board == new_board_of(b, i, m)
             IN  IF ~is_valid(new_board) THEN Err("Invalid move") ELSE Ok(new_board)

Max(a, b) == IF a > b THEN a ELSE b

\* move_piece_from trying one distance only
move_piece_once(b, piece, direction, distance) ==
    IF distance >= Max(b.size.x, b.size.y) THEN <<>>
    ELSE LET m == SlideMove(piece.position, direction, distance)
             r == make_move(b, m)
         IN  IF r.ok THEN <<[slide_move |-> m, board |-> r.board]>> ELSE <<>>

\* move_piece_from going on after a distance that failed (filter_map for map_while)
RECURSIVE move_piece_from_filter(_, _, _, _)
move_piece_from_filter(b, piece, direction, distance) ==
    IF distance >= Max(b.size.x, b.size.y) THEN <<>>
    ELSE LET m == SlideMove(piece.position, direction, distance)
             r == make_move(b, m)
         IN  IF r.ok
             THEN <<[slide_move |-> m, board |-> r.board]>>
                      \o move_piece_from_filter(b, piece, direction, distance + 1)
             ELSE move_piece_from_filter(b, piece, direction, distance + 1)

\* the map_while over distance_range of move_piece_until_it_cant_no_more, from `distance` on
RECURSIVE move_piece_from(_, _, _, _)
move_piece_from(b, piece, direction, distance) ==
    IF distance >= Max(b.size.x, b.size.y) THEN <<>>
    ELSE LET m == SlideMove(piece.position, direction, distance)
             r == make_move(b, m)
         IN  IF r.ok
             THEN <<[slide_move |-> m, board |-> r.board]>>
                      \o move_piece_from(b, piece, direction, distance + 1)
             ELSE <<>>

move_piece_until_it_cant_no_more(b, piece, direction) == move_piece_from(b, piece, direction, 1)

\* flat_map_from with the directions in the outer loop
RECURSIVE flat_map_from_by_direction(_, _)
flat_map_from_by_direction(b, k) ==
    IF k >= Len(b.pieces) * Len(SlideDirections) THEN <<>>
    ELSE move_piece_until_it_cant_no_more(
             b, b.pieces[(k % Len(b.pieces)) + 1],
             SlideDirections[(k \div Len(b.pieces)) + 1])
         \o flat_map_from_by_direction(b, k + 1)

\* the flat_map over the cartesian product pieces x directions, from its k-th pair on
RECURSIVE flat_map_from(_, _)
flat_map_from(b, k) ==
    IF k >= Len(b.pieces) * Len(SlideDirections) THEN <<>>
    ELSE move_piece_until_it_cant_no_more(
             b, b.pieces[(k \div Len(SlideDirections)) + 1],
             SlideDirections[(k % Len(SlideDirections)) + 1])
         \o flat_map_from(b, k + 1)

get_valid_moves(b) == flat_map_from(b, 0)

---------------------------------------------------------------------------
(* State graph: src/src/graph/mod.rs *)

\* Option<u32>
None == <<>>
Some(d) == <<d>>
is_some(o) == o # None
unwrap(o) == o[1]

Node(b) ==
    [board |-> b, edges |-> <<>>, distance_to_start |-> None,
     distance_to_solution |-> None, on_shortest_path |-> FALSE]

Edge(neighbor, m) == [neighbor |-> neighbor, slide_move |-> m]

Graph_new == [map |-> <<>>, max_distance_to_start |-> 0, max_distance_to_solution |-> 0]

\* add_node without the comparison of the boards
add_node_never_panics(g, b) == FALSE

\* the panic of add_node: the id is taken by a node whose board differs
add_node_panics(g, b) ==
    to_id(b) \in DOMAIN g.map /\ ~board_eq(g.map[to_id(b)].board, b)

\* add_node inserting a fresh node also when the id is taken
add_node_overwrite(g, b) == [g EXCEPT !.map = (to_id(b) :> Node(b)) @@ g.map]

add_node(g, b) ==
    IF to_id(b) \in DOMAIN g.map
    THEN g
    ELSE [g EXCEPT !.map = (to_id(b) :> Node(b)) @@ g.map]

contains_node(g, b) == to_id(b) \in DOMAIN g.map

node_count(g) == Cardinality(DOMAIN g.map)

\* the number of edges of g
EdgeTotal(g) ==
    LET RECURSIVE Sum(_)
        Sum(ids) == IF ids = {} THEN 0
                    ELSE LET id == CHOOSE i \in ids : TRUE
                         IN  Len(g.map[id].edges) + Sum(ids \ {id})
    IN  Sum(DOMAIN g.map)

\* the panic of add_edge: "Inserting edge from unknown node"
add_edge_panics(g, from) == to_id(from) \notin DOMAIN g.map

\* add_edge making a node for the target when there is none
add_edge_adds_target(g, from, to, m) ==
    [add_node(g, to) EXCEPT !.map[to_id(from)].edges = Append(@, Edge(to_id(to), m))]

\* add_edge that leaves out an edge the node holds already
add_edge_deduplicates(g, from, to, m) ==
    IF \E k \in 1..Len(g.map[to_id(from)].edges) :
           g.map[to_id(from)].edges[k] = Edge(to_id(to), m)
    THEN g
    ELSE [g EXCEPT !.map[to_id(from)].edges = Append(@, Edge(to_id(to), m))]

add_edge(g, from, to, m) ==
    [g EXCEPT !.map[to_id(from)].edges = Append(@, Edge(to_id(to), m))]

\* the two predicates analyze hands to distance_from: has the node been visited
pred_never_visited(node, field) == FALSE

pred_visited(node, field) ==
    IF field = "distance_to_start"
    THEN is_some(node.distance_to_start)
    ELSE is_some(node.distance_to_solution)

\* ... and the node with its field set to the distance
pred_set(node, field, distance) ==
    IF field = "distance_to_start"
    THEN [node EXCEPT !.distance_to_start = Some(distance)]
    ELSE [node EXCEPT !.distance_to_solution = Some(distance)]

QueueEntry(key, distance_from) == [key |-> key, distance_from |-> distance_from]

\* the queue entries pushed for a node's edges
neighbor_entries(node, neighbors_distance_from) ==
    [k \in 1..Len(node.edges) |-> QueueEntry(node.edges[k].neighbor, neighbors_distance_from)]

\* inspection_queue.pop_front(): the entry taken and the queue left
pop_back(queue) ==
    [entry |-> queue[Len(queue)], rest |-> SubSeq(queue, 1, Len(queue) - 1)]

pop_front_peek(queue) == [entry |-> Head(queue), rest |-> queue]

pop_front(queue) == [entry |-> Head(queue), rest |-> Tail(queue)]

\* distance_from is entered: the queue holds the origin at distance 0
distance_from_enter(from, field) ==
    /\ inspection_queue' = <<QueueEntry(from, 0)>>
    /\ max_distance_from' = 0
    /\ pc' = field

\* one iteration of the while loop of distance_from
distance_from_iteration ==
    /\ pc \in {"distance_to_start", "distance_to_solution"}
    /\ inspection_queue # <<>>
    /\ LET popped == pop_front(inspection_queue)
           entry == popped.entry
       IN  IF entry.key \notin DOMAIN graph.map
           THEN \* "Graph does not contain this board."
                /\ pc' = "panic"
                /\ inspection_queue' = popped.rest
                /\ UNCHANGED <<graph, max_distance_from>>
           ELSE LET node == graph.map[entry.key]
                IN  IF pred_visited(node, pc)
                    THEN /\ inspection_queue' = popped.rest
                         /\ UNCHANGED <<graph, max_distance_from, pc>>
                    ELSE /\ graph' = [graph EXCEPT !.map[entry.key] =
                                          pred_set(node, pc, entry.distance_from)]
                         /\ max_distance_from' = Max(max_distance_from, entry.distance_from)
                         /\ inspection_queue' = popped.rest
                                \o neighbor_entries(node, entry.distance_from + 1)
                         /\ UNCHANGED pc
    /\ UNCHANGED <<start_board, solution_node, board, op, slide_move, result, valid_moves,
                   steps, edges_added, played, collision, ui>>

analyze_start_done_from_start ==
    /\ pc = "distance_to_start" /\ inspection_queue = <<>>
    /\ graph' = [graph EXCEPT !.max_distance_to_start = max_distance_from]
    /\ distance_from_enter(to_id(start_board), "distance_to_solution")
    /\ UNCHANGED <<start_board, solution_node, board, op, slide_move, result, valid_moves,
                   steps, edges_added, played, collision, ui>>

analyze_start_done_drops_max ==
    /\ pc = "distance_to_start" /\ inspection_queue = <<>>
    /\ distance_from_enter(to_id(solution_node), "distance_to_solution")
    /\ UNCHANGED <<graph, start_board, solution_node, board, op, slide_move, result,
                   valid_moves, steps, edges_added, played, collision, ui>>

\* analyze: the first distance_from has returned, the second one is entered
analyze_start_done ==
    /\ pc = "distance_to_start" /\ inspection_queue = <<>>
    /\ graph' = [graph EXCEPT !.max_distance_to_start = max_distance_from]
    /\ distance_from_enter(to_id(solution_node), "distance_to_solution")
    /\ UNCHANGED <<start_board, solution_node, board, op, slide_move, result, valid_moves,
                   steps, edges_added, played, collision, ui>>

\* analyze: the second distance_from has returned; the two lookups of the printout
analyze_solution_done ==
    /\ pc = "distance_to_solution" /\ inspection_queue = <<>>
    /\ graph' = [graph EXCEPT !.max_distance_to_solution = max_distance_from]
    /\ pc' = IF to_id(start_board) \in DOMAIN graph.map
                  /\ to_id(solution_node) \in DOMAIN graph.map
             THEN "done" ELSE "panic"
    /\ UNCHANGED <<start_board, solution_node, inspection_queue, max_distance_from,
                   board, op, slide_move, result, valid_moves, steps, edges_added,
                   played, collision, ui>>

---------------------------------------------------------------------------
(* WiggersGraaf: src/src/lib.rs *)

MoveInfo(m, resulting_id, resulting_distance, effectiveness) ==
    [slide_move |-> m, resulting_id |-> resulting_id,
     resulting_distance |-> resulting_distance, effectiveness |-> effectiveness]

\* a comparison that calls a move to an equally distant board Positive
effectiveness_of_or_equal(resulting_distance, current_distance) ==
    IF resulting_distance <= current_distance THEN "Positive" ELSE "Negative"

\* resulting_distance.cmp(&current_distance) as a MoveEffectiveness
effectiveness_of(resulting_distance, current_distance) ==
    IF resulting_distance < current_distance THEN "Positive"
    ELSE IF resulting_distance = current_distance THEN "Neutral"
    ELSE "Negative"

\* the filter_map of collect_moves over edges[k..]: the entries kept so far, or the
\* panic of an expect
RECURSIVE filter_map_edges(_, _, _, _, _)
filter_map_edges(g, edges, current_distance, k, acc) ==
    IF k > Len(edges) THEN [panic |-> FALSE, moves |-> acc]
    ELSE IF edges[k].neighbor \notin DOMAIN g.map
    THEN [panic |-> TRUE, moves |-> acc]     \* "Invalid neighbor ID"
    ELSE IF ~is_some(g.map[edges[k].neighbor].distance_to_solution)
    THEN [panic |-> TRUE, moves |-> acc]     \* "Incomplete neighbour, ..."
    ELSE LET resulting_distance == unwrap(g.map[edges[k].neighbor].distance_to_solution)
         IN  filter_map_edges(
                 g, edges, current_distance, k + 1,
                 IF resulting_distance = 0 THEN acc
                 ELSE Append(acc, MoveInfo(edges[k].slide_move, edges[k].neighbor,
                                           resulting_distance,
                                           effectiveness_of(resulting_distance,
                                                            current_distance))))

\* sorted_by resulting_distance (a stable sort): move_info put behind the entries
\* that are not greater
RECURSIVE insert_by_distance(_, _)
insert_by_distance(sorted, move_info) ==
    IF sorted = <<>> THEN <<move_info>>
    ELSE IF sorted[Len(sorted)].resulting_distance <= move_info.resulting_distance
    THEN Append(sorted, move_info)
    ELSE Append(insert_by_distance(SubSeq(sorted, 1, Len(sorted) - 1), move_info),
                sorted[Len(sorted)])

RECURSIVE sorted_by_distance(_)
sorted_by_distance(moves) ==
    IF moves = <<>> THEN <<>>
    ELSE insert_by_distance(sorted_by_distance(SubSeq(moves, 1, Len(moves) - 1)),
                            moves[Len(moves)])

\* collect_moves(state): the list returned, or the panic of an expect
collect_moves(g, state) ==
    IF ~is_some(state.distance_to_solution)
    THEN [panic |-> TRUE, moves |-> <<>>]    \* "Incomplete state, ..."
    ELSE LET kept == filter_map_edges(g, state.edges,
                                      unwrap(state.distance_to_solution), 1, <<>>)
         IN  [panic |-> kept.panic, moves |-> sorted_by_distance(kept.moves)]

\* set_state(new_state): the list returned, or the panic of an expect; the views
\* are given the graph and the node to read
set_state(g, new_state) ==
    IF new_state \notin DOMAIN g.map
    THEN [panic |-> TRUE, moves |-> <<>>]    \* "Invalid ID"
    ELSE collect_moves(g, g.map[new_state])

\* the animation of a piece the board view runs for slide_move
Animation(m, repeat) == [target |-> m.start, slide_move |-> m, repeat |-> repeat]

\* the animation that returns a piece let go of to its place
post_drag_animation(target) == [target |-> target, slide_move |-> None, repeat |-> "None"]

\* DynamicElement of the VisualBoard: None, a running Animation or a Drag. The
\* done_sender of an AnimationExecution holds the sender of a oneshot channel, named
\* here by what became of its receiver: "do_move" awaits it, "dropped" was let go
DynamicElement_None == [kind |-> "None"]

AnimationExecution(animation, receiver) ==
    [kind |-> "Animation", animation |-> animation, start_time |-> None,
     done_sender |-> Some(receiver)]

Drag(target) == [kind |-> "Drag", target |-> target]

\* WiggersGraaf::new besides Solver::new: the lock is free, the views show nothing
\* (VisualBoard::empty), no frame is requested, the board view's Controls track no
\* pointer and have forwarded nothing. move_done is the receiver do_move awaits
\* ("idle" when there is none), signals counts the sends on the channel of the
\* latest animate, frame_requests the callbacks the browser still owes. The moves
\* view (MovesView::new) has no best move, auto-solve off and no timeout; timeouts
\* are the timeouts of the window that have not fired, auto_start the distance of
\* the board on which auto-solve was switched on and auto_moves the moves it has
\* made since, both followed until a button of the moves view is clicked
WiggersGraaf_new ==
    [move_lock |-> FALSE, active_state |-> None, dynamic_element |-> DynamicElement_None,
     move_done |-> "idle", signals |-> 0,
     frame_requested |-> FALSE, frame_requests |-> 0,
     move_info |-> None, moves |-> <<>>, op |-> "new", returned |-> None,
     drag_pointer_index |-> None, forwarded |-> <<>>,
     best_move |-> None, auto_solve_enabled |-> FALSE, auto_solve_timeout_id |-> None,
     timeouts |-> {}, auto_start |-> None, auto_moves |-> 0]

---------------------------------------------------------------------------
(* FrameScheduler: src/src/views/frame_scheduler.rs *)

\* schedule() that asks the browser for a frame whatever the flag says
schedule_always_requests(u) ==
    [u EXCEPT !.frame_requests = @ + 1, !.frame_requested = TRUE]

\* schedule(): nothing while a request is pending, else request_animation_frame and
\* the flag is set; Ok(()) both ways
schedule(u) ==
    IF u.frame_requested
    THEN u
    ELSE [u EXCEPT !.frame_requests = @ + 1, !.frame_requested = TRUE]

---------------------------------------------------------------------------
(* VisualBoard: src/src/views/board_view/visual_board.rs *)

\* resolve_if_sender: take() the sender and send; the error of a receiver that is
\* gone is ignored
resolve_if_sender(u) ==
    IF is_some(u.dynamic_element.done_sender)
    THEN [u EXCEPT !.dynamic_element.done_sender = None,
                   !.signals = @ + 1,
                   !.move_done = IF unwrap(u.dynamic_element.done_sender) = "do_move"
                                      /\ @ = "waiting"
                                 THEN "sent" ELSE @]
    ELSE u

\* clear_animation that forgets to resolve the sender
clear_animation_silent(u) == u

\* clear_animation: a running animation has its sender resolved
clear_animation(u) ==
    IF u.dynamic_element.kind = "Animation" THEN resolve_if_sender(u) ELSE u

\* the dynamic element is overwritten or the board is replaced: a sender still held
\* is dropped unsent, which its receiver sees as Canceled
drop_dynamic_element(u) ==
    IF /\ u.dynamic_element.kind = "Animation"
       /\ u.dynamic_element.done_sender = Some("do_move")
       /\ u.move_done = "waiting"
    THEN [u EXCEPT !.move_done = "canceled"]
    ELSE u

\* animate(animation); `receiver` says what the caller does with the Receiver
animate(u, animation, receiver) ==
    LET cleared == drop_dynamic_element(clear_animation(u))
    IN  [cleared EXCEPT !.dynamic_element =
                            IF is_some(animation)
                            THEN AnimationExecution(unwrap(animation), receiver)
                            ELSE DynamicElement_None,
                        !.signals = 0]

\* start_drag(target) with `piece` the piece under the cursor, if any
start_drag(u, piece) ==
    IF is_some(piece)
    THEN [drop_dynamic_element(clear_animation(u))
              EXCEPT !.dynamic_element = Drag(unwrap(piece))]
    ELSE u

\* stop_drag() of a drag that made no move: start_post_drag_animation
stop_drag(u) ==
    IF u.dynamic_element.kind = "Drag"
    THEN animate(u, Some(post_drag_animation(u.dynamic_element.target)), "dropped")
    ELSE u

\* update_to(timestamp): `finished` says that the timestamp lies past the end of
\* the sequence, which the frame that sets start_time cannot be. The board
\* afterwards and is_ok() of the Result
update_to(u, finished) ==
    IF u.dynamic_element.kind # "Animation"
    THEN [u |-> u, ok |-> FALSE]
    ELSE IF ~(finished /\ is_some(u.dynamic_element.start_time))
    THEN [u |-> [u EXCEPT !.dynamic_element.start_time = Some(0)], ok |-> TRUE]
    ELSE IF u.dynamic_element.animation.repeat = "Loop"
    THEN [u |-> [u EXCEPT !.dynamic_element.start_time = None], ok |-> TRUE]
    ELSE [u |-> [resolve_if_sender(u) EXCEPT !.dynamic_element = DynamicElement_None],
          ok |-> FALSE]

---------------------------------------------------------------------------
(* BoardView: src/src/views/board_view/mod.rs *)

\* set_state(state): a new VisualBoard replaces the old one and a frame is scheduled
board_view_set_state(u) ==
    schedule([drop_dynamic_element(u) EXCEPT !.dynamic_element = DynamicElement_None])

\* draw(timestamp): the next frame is scheduled while the board is animating
draw(u, finished) ==
    LET updated == update_to(u, finished)
    IN  IF updated.ok THEN schedule(updated.u) ELSE updated.u

\* the closure of the FrameScheduler with the flag cleared after on_frame_cb
on_frame_clears_late(u, finished) ==
    [draw([u EXCEPT !.frame_requests = @ - 1], finished) EXCEPT !.frame_requested = FALSE]

\* the closure the FrameScheduler gives to the browser: the flag is cleared, then
\* on_frame_cb, which is draw, is called
on_frame(u, finished) ==
    draw([u EXCEPT !.frame_requests = @ - 1, !.frame_requested = FALSE], finished)

---------------------------------------------------------------------------
(* MovesView: src/src/views/moves_view/mod.rs *)

\* the id set_timeout returns: one the window has not given to a timeout still at hand
new_timeout_id(u) ==
    CHOOSE id \in 1..(MaxTimeouts + 3) :
        id \notin u.timeouts /\ Some(id) # u.auto_solve_timeout_id

\* queue_best_move(): with a best move, a timeout of 200 ms is set that will call
\* do_best_move, and its id is kept
queue_best_move(u) ==
    IF is_some(u.best_move)
    THEN LET id == new_timeout_id(u)
         IN  [u EXCEPT !.timeouts = @ \cup {id}, !.auto_solve_timeout_id = Some(id)]
    ELSE u

\* cancel_best_move(): the timeout whose id is kept is cleared
cancel_best_move(u) ==
    IF is_some(u.auto_solve_timeout_id)
    THEN [u EXCEPT !.timeouts = @ \ {unwrap(u.auto_solve_timeout_id)},
                   !.auto_solve_timeout_id = None]
    ELSE u

\* set_auto_solve(enable)
set_auto_solve(u, enable) ==
    IF u.auto_solve_enabled = enable
    THEN u
    ELSE IF enable
    THEN queue_best_move([u EXCEPT !.auto_solve_enabled = TRUE])
    ELSE cancel_best_move([u EXCEPT !.auto_solve_enabled = FALSE])

\* set_data(graph, active_state), for the list `moves` that collect_moves returns:
\* the first move is the best move; in auto-solve mode it is queued if it is
\* Positive, else auto-solve is switched off
set_data(u, moves) ==
    LET shown == [u EXCEPT !.best_move = IF moves = <<>> THEN None ELSE Some(moves[1])]
    IN  IF shown.auto_solve_enabled
        THEN IF is_some(shown.best_move)
                  /\ unwrap(shown.best_move).effectiveness = "Positive"
             THEN queue_best_move(shown)
             ELSE set_auto_solve(shown, FALSE)
        ELSE shown

---------------------------------------------------------------------------
(* Controls of the board view: src/src/views/board_view/controls.rs *)

\* a ControlEvent given to on_event_cb: its kind, the pointer it came from and what
\* the callback returned
Forwarded(event, index, handled) == [event |-> event, index |-> index, handled |-> handled]

\* handle_event forwarding Move and Up of any pointer while one is tracked
handle_event_any_pointer(drag_pointer_index, event, index, cb) ==
    CASE event = "Down" ->
            IF ~is_some(drag_pointer_index)
            THEN [drag_pointer_index |-> IF cb THEN Some(index) ELSE drag_pointer_index,
                  forwarded |-> <<Forwarded("Down", index, cb)>>, handled |-> cb]
            ELSE [drag_pointer_index |-> drag_pointer_index, forwarded |-> <<>>,
                  handled |-> FALSE]
      [] event = "Up" ->
            IF is_some(drag_pointer_index)
            THEN [drag_pointer_index |-> None,
                  forwarded |-> <<Forwarded("Up", index, cb)>>, handled |-> cb]
            ELSE [drag_pointer_index |-> drag_pointer_index, forwarded |-> <<>>,
                  handled |-> FALSE]
      [] event = "Move" ->
            IF is_some(drag_pointer_index)
            THEN [drag_pointer_index |-> drag_pointer_index,
                  forwarded |-> <<Forwarded("Move", index, cb)>>, handled |-> cb]
            ELSE [drag_pointer_index |-> drag_pointer_index, forwarded |-> <<>>,
                  handled |-> FALSE]
      [] event = "TouchMove" ->
            [drag_pointer_index |-> drag_pointer_index, forwarded |-> <<>>,
             handled |-> is_some(drag_pointer_index)]
      [] OTHER ->
            [drag_pointer_index |-> drag_pointer_index, forwarded |-> <<>>,
             handled |-> FALSE]

\* handle_event(event) for an event of pointer `index`, with cb what on_event_cb
\* returns if it is called: the pointer tracked afterwards, the ControlEvent given
\* to on_event_cb if any, and the value returned
handle_event(drag_pointer_index, event, index, cb) ==
    CASE event = "Down" ->
            IF ~is_some(drag_pointer_index)
            THEN [drag_pointer_index |-> IF cb THEN Some(index) ELSE drag_pointer_index,
                  forwarded |-> <<Forwarded("Down", index, cb)>>, handled |-> cb]
            ELSE [drag_pointer_index |-> drag_pointer_index, forwarded |-> <<>>,
                  handled |-> FALSE]
      [] event = "Up" ->
            IF drag_pointer_index = Some(index)
            THEN [drag_pointer_index |-> None,
                  forwarded |-> <<Forwarded("Up", index, cb)>>, handled |-> cb]
            ELSE [drag_pointer_index |-> drag_pointer_index, forwarded |-> <<>>,
                  handled |-> FALSE]
      [] event = "Move" ->
            IF drag_pointer_index = Some(index)
            THEN [drag_pointer_index |-> drag_pointer_index,
                  forwarded |-> <<Forwarded("Move", index, cb)>>, handled |-> cb]
            ELSE [drag_pointer_index |-> drag_pointer_index, forwarded |-> <<>>,
                  handled |-> FALSE]
      [] event = "TouchMove" ->
            [drag_pointer_index |-> drag_pointer_index, forwarded |-> <<>>,
             handled |-> is_some(drag_pointer_index)]
      [] OTHER ->
            [drag_pointer_index |-> drag_pointer_index, forwarded |-> <<>>,
             handled |-> FALSE]

---------------------------------------------------------------------------
(* Solver: src/src/solver.rs *)

\* a placeholder move that starts at a cell of the 2x2 piece, not at its position
fake_move_inside_piece == SlideMove(Coordinates(2, 1), "Down", 1)

\* the placeholder move of the two synthetic edges
fake_move == SlideMove(Coordinates(1, 0), "Down", 1)

queue_contains_never(queue, b) == FALSE

queue_contains_nonempty(queue, b) == queue # <<>>

\* inspection_queue.contains(new_board)
queue_contains(queue, b) == \E k \in 1..Len(queue) : board_eq(queue[k], b)

\* for_each_move with the graph asked for the popped board instead of the new one
RECURSIVE for_each_move_current(_, _, _, _)
for_each_move_current(acc, current, moves, k) ==
    IF k > Len(moves) \/ acc.panic THEN acc
    ELSE LET new_board == moves[k].board
             queue == IF ~contains_node(acc.graph, current)
                          /\ ~queue_contains(acc.queue, new_board)
                      THEN Append(acc.queue, new_board)
                      ELSE acc.queue
         IN  IF add_edge_panics(acc.graph, current)
             THEN [acc EXCEPT !.queue = queue, !.panic = TRUE]
             ELSE for_each_move_current(
                      [graph |-> add_edge(acc.graph, current, new_board, moves[k].slide_move),
                       queue |-> queue, panic |-> FALSE],
                      current, moves, k + 1)

\* the for_each closure of generate_moves applied to moves[k..]; acc is the graph,
\* the queue and whether add_edge has panicked
RECURSIVE for_each_move(_, _, _, _)
for_each_move(acc, current, moves, k) ==
    IF k > Len(moves) \/ acc.panic THEN acc
    ELSE LET new_board == moves[k].board
             queue == IF ~contains_node(acc.graph, new_board)
                          /\ ~queue_contains(acc.queue, new_board)
                      THEN Append(acc.queue, new_board)
                      ELSE acc.queue
         IN  IF add_edge_panics(acc.graph, current)
             THEN [acc EXCEPT !.queue = queue, !.panic = TRUE]
             ELSE for_each_move(
                      [graph |-> add_edge(acc.graph, current, new_board, moves[k].slide_move),
                       queue |-> queue, panic |-> FALSE],
                      current, moves, k + 1)

\* add_solution_edges without the edge from the solution back to the board
add_solution_edges_one_way(acc, current, solution) ==
    IF acc.panic \/ ~is_solution(current) THEN acc
    ELSE IF add_edge_panics(acc.graph, current) THEN [acc EXCEPT !.panic = TRUE]
    ELSE [acc EXCEPT !.graph = add_edge(acc.graph, current, solution, fake_move)]

\* add_solution_edges without the edge from the board to the solution
add_solution_edges_back_only(acc, current, solution) ==
    IF acc.panic \/ ~is_solution(current) THEN acc
    ELSE IF add_edge_panics(acc.graph, solution) THEN [acc EXCEPT !.panic = TRUE]
    ELSE [acc EXCEPT !.graph = add_edge(acc.graph, solution, current, fake_move)]

\* add_solution_edges without the is_solution test
add_solution_edges_unconditional(acc, current, solution) ==
    IF acc.panic THEN acc
    ELSE IF add_edge_panics(acc.graph, current) THEN [acc EXCEPT !.panic = TRUE]
    ELSE LET g1 == add_edge(acc.graph, current, solution, fake_move)
         IN  IF add_edge_panics(g1, solution) THEN [acc EXCEPT !.graph = g1, !.panic = TRUE]
             ELSE [acc EXCEPT !.graph = add_edge(g1, solution, current, fake_move)]

\* the two synthetic edges added for a board that is a solution
add_solution_edges(acc, current, solution) ==
    IF acc.panic \/ ~is_solution(current) THEN acc
    ELSE IF add_edge_panics(acc.graph, current) THEN [acc EXCEPT !.panic = TRUE]
    ELSE LET g1 == add_edge(acc.graph, current, solution, fake_move)
         IN  IF add_edge_panics(g1, solution) THEN [acc EXCEPT !.graph = g1, !.panic = TRUE]
             ELSE [acc EXCEPT !.graph = add_edge(g1, solution, current, fake_move)]

\* generate_moves_body without the add_node of the popped board
generate_moves_body_without_add_node(g, queue, current, solution) ==
    add_solution_edges(
        for_each_move([graph |-> g, queue |-> queue, panic |-> FALSE],
                      current, get_valid_moves(current), 1),
        current, solution)

\* the body of the while loop of generate_moves for the popped board
generate_moves_body(g, queue, current, solution) ==
    IF add_node_panics(g, current) THEN [graph |-> g, queue |-> queue, panic |-> TRUE]
    ELSE add_solution_edges(
             for_each_move([graph |-> add_node(g, current), queue |-> queue, panic |-> FALSE],
                           current, get_valid_moves(current), 1),
             current, solution)

\* the start boards Solver::new is run from: arrangements of the ten pieces of
\* get_start_board with 12, 21, 32 and 99 reachable boards, some of them solutions
\* (get_start_board itself reaches 25955 boards)
Layouts ==
    <<[size |-> SIZE,
       pieces |-> sort(<<Piece(0, 0, 1, 2), Piece(0, 3, 2, 1), Piece(0, 4, 1, 1),
                         Piece(1, 1, 2, 2), Piece(1, 4, 1, 1), Piece(2, 0, 1, 1),
                         Piece(2, 3, 1, 2), Piece(3, 0, 1, 2), Piece(3, 2, 1, 2),
                         Piece(3, 4, 1, 1)>>)],
      [size |-> SIZE,
       pieces |-> sort(<<Piece(0, 0, 1, 2), Piece(0, 2, 1, 2), Piece(1, 0, 1, 1),
                         Piece(1, 1, 2, 2), Piece(1, 3, 1, 2), Piece(2, 0, 1, 1),
                         Piece(2, 3, 2, 1), Piece(2, 4, 1, 1), Piece(3, 0, 1, 2),
                         Piece(3, 4, 1, 1)>>)],
      [size |-> SIZE,
       pieces |-> sort(<<Piece(0, 0, 2, 2), Piece(0, 2, 1, 1), Piece(0, 3, 1, 2),
                         Piece(1, 2, 1, 2), Piece(1, 4, 1, 1), Piece(2, 0, 1, 2),
                         Piece(2, 2, 2, 1), Piece(2, 3, 1, 2), Piece(3, 3, 1, 1),
                         Piece(3, 4, 1, 1)>>)],
      [size |-> SIZE,
       pieces |-> sort(<<Piece(0, 0, 2, 2), Piece(0, 3, 1, 1), Piece(0, 4, 2, 1),
                         Piece(1, 2, 1, 1), Piece(1, 3, 1, 1), Piece(2, 0, 1, 1),
                         Piece(2, 1, 1, 2), Piece(2, 3, 1, 2), Piece(3, 0, 1, 2),
                         Piece(3, 2, 1, 2)>>)]>>

UnchangedBoard ==
    UNCHANGED <<board, op, slide_move, result, valid_moves, steps, edges_added, played,
                collision, ui>>

\* Solver::new up to the call of generate_moves: the struct is built
Init ==
    /\ graph = Graph_new
    /\ \E i \in 1..NumLayouts : i <= Len(Layouts) /\ start_board = Layouts[i]
    /\ solution_node = get_solved_board
    /\ inspection_queue = <<>>
    /\ max_distance_from = 0
    /\ pc = "new"
    /\ board = 0 /\ op = "none" /\ slide_move = 0 /\ result = 0 /\ valid_moves = <<>>
    /\ steps = 0 /\ edges_added = 0 /\ played = <<>> /\ collision = {}
    /\ ui = WiggersGraaf_new

Solver_new_without_anchor ==
    /\ pc = "new"
    /\ inspection_queue' = <<start_board>>
    /\ pc' = "generate_moves"
    /\ UNCHANGED <<graph, start_board, solution_node, max_distance_from>>
    /\ UnchangedBoard

\* Solver::new: the solution is added to the graph and generate_moves is entered
Solver_new ==
    /\ pc = "new"
    /\ IF add_node_panics(graph, solution_node)
       THEN pc' = "panic" /\ UNCHANGED <<graph, inspection_queue>>
       ELSE /\ graph' = add_node(graph, solution_node)
            /\ inspection_queue' = <<start_board>>
            /\ pc' = "generate_moves"
    /\ UNCHANGED <<start_board, solution_node, max_distance_from>>
    /\ UnchangedBoard

\* one iteration of the while loop of generate_moves
generate_moves ==
    /\ pc = "generate_moves"
    /\ inspection_queue # <<>>
    /\ LET current == inspection_queue[Len(inspection_queue)]
           rest == SubSeq(inspection_queue, 1, Len(inspection_queue) - 1)
           acc == generate_moves_body(graph, rest, current, solution_node)
       IN  /\ graph' = acc.graph
           /\ inspection_queue' = acc.queue
           /\ pc' = IF acc.panic THEN "panic" ELSE pc
    /\ UNCHANGED <<start_board, solution_node, max_distance_from>>
    /\ UnchangedBoard

\* generate_moves has returned: analyze is called and enters the first distance_from
analyze ==
    /\ pc = "generate_moves"
    /\ inspection_queue = <<>>
    /\ distance_from_enter(to_id(start_board), "distance_to_start")
    /\ UNCHANGED <<graph, start_board, solution_node>>
    /\ UnchangedBoard

Next ==
    \/ Solver_new
    \/ generate_moves
    \/ analyze
    \/ distance_from_iteration
    \/ analyze_start_done
    \/ analyze_solution_done

Spec == Init /\ [][Next]_vars

\* a step of Solver::new can be taken: one of the actions of Next is enabled (new:
\* Solver_new; generate_moves: generate_moves on a queue with boards, analyze on an
\* empty one; in a traversal: distance_from_iteration or the return to analyze)
Running == pc \notin {"done", "panic"}

\* Solver::new is sequential code: a step that can be taken is taken. This is
\* WF_vars(Next), with ENABLED <<Next>>_vars written as the state predicate Running
SpecFair == Spec /\ ([]<>(~Running) \/ []<><<Next>>_vars)

---------------------------------------------------------------------------
(* Board harness: the board functions applied to boards played from the start  *)
(* board and from the solved board                                              *)

Cells == {Coordinates(x, y) : x \in 0..(SIZE.x - 1), y \in 0..(SIZE.y - 1)}

SlideMoves ==
    {SlideMove(c, SlideDirections[d], n) :
        c \in Cells, d \in 1..Len(SlideDirections), n \in 0..MaxDistance}

InitBoard ==
    /\ graph = 0 /\ start_board = 0 /\ solution_node = 0 /\ inspection_queue = <<>>
    /\ max_distance_from = 0 /\ pc = "board"
    /\ board \in {get_start_board, get_solved_board}
    /\ op = "new" /\ slide_move = 0 /\ result = 0 /\ valid_moves = <<>> /\ steps = 0
    /\ edges_added = 0 /\ played = <<>> /\ collision = {}
    /\ ui = WiggersGraaf_new

UnchangedSolver ==
    UNCHANGED <<graph, start_board, solution_node, inspection_queue, max_distance_from,
                pc, edges_added, played, collision, ui>>

\* make_move(&board, &slide_move): the board is borrowed immutably
CallMakeMove ==
    /\ pc = "board" /\ op = "new"
    /\ \E m \in SlideMoves :
        /\ slide_move' = m
        /\ result' = make_move(board, m)
    /\ op' = "make_move"
    /\ valid_moves' = <<>>
    /\ UNCHANGED <<board, steps>>
    /\ UnchangedSolver

\* get_valid_moves(&board)
CallGetValidMoves ==
    /\ pc = "board" /\ op = "new"
    /\ valid_moves' = get_valid_moves(board)
    /\ op' = "get_valid_moves"
    /\ slide_move' = 0 /\ result' = 0
    /\ UNCHANGED <<board, steps>>
    /\ UnchangedSolver

\* pieces with the entries i and j exchanged
swap(pieces, i, j) == [pieces EXCEPT ![i] = pieces[j], ![j] = pieces[i]]

\* to_id(&board) and to_id of a board that holds the same pieces in another array
\* order (Board's fields are public; get_start_board builds such a board at lines
\* 201-204, before it sorts it)
CallToId ==
    /\ pc = "board" /\ op = "new"
    /\ \E i \in 1..Len(board.pieces) : \E j \in i..Len(board.pieces) :
        LET other == [board EXCEPT !.pieces = swap(board.pieces, i, j)]
        IN  result' = [other |-> other, id |-> to_id(board), other_id |-> to_id(other)]
    /\ op' = "to_id"
    /\ slide_move' = 0 /\ valid_moves' = <<>>
    /\ UNCHANGED <<board, steps>>
    /\ UnchangedSolver

\* is_valid(&board)
CallIsValid ==
    /\ pc = "board" /\ op = "new"
    /\ result' = is_valid(board)
    /\ op' = "is_valid"
    /\ slide_move' = 0 /\ valid_moves' = <<>>
    /\ UNCHANGED <<board, steps>>
    /\ UnchangedSolver

\* is_solution(&board)
CallIsSolution ==
    /\ pc = "board" /\ op = "new"
    /\ result' = is_solution(board)
    /\ op' = "is_solution"
    /\ slide_move' = 0 /\ valid_moves' = <<>>
    /\ UNCHANGED <<board, steps>>
    /\ UnchangedSolver

\* the board make_move returned becomes the board the functions are applied to
Play ==
    /\ pc = "board" /\ op = "make_move" /\ result.ok
    /\ steps < MaxSteps
    /\ board' = result.board
    /\ steps' = steps + 1
    /\ op' = "new" /\ slide_move' = 0 /\ result' = 0 /\ valid_moves' = <<>>
    /\ UnchangedSolver

NextBoard ==
    \/ CallMakeMove
    \/ CallGetValidMoves
    \/ CallToId
    \/ CallIsValid
    \/ CallIsSolution
    \/ Play

SpecBoard == InitBoard /\ [][NextBoard]_vars

---------------------------------------------------------------------------
(* Play harness: sequences of moves of get_valid_moves from the start board, as  *)
(* test_analyse (src/src/graph/unittest.rs) plays them                           *)

\* the entries of a Vec, as a set
entries(vec) == {vec[k] : k \in 1..Len(vec)}

InitPlay ==
    /\ graph = 0 /\ start_board = 0 /\ solution_node = 0 /\ inspection_queue = <<>>
    /\ max_distance_from = 0 /\ pc = "play"
    /\ board = get_start_board
    /\ op = "new" /\ slide_move = 0 /\ result = 0 /\ valid_moves = <<>> /\ steps = 0
    /\ edges_added = 0 /\ played = <<>> /\ collision = {}
    /\ ui = WiggersGraaf_new

\* one of the moves of get_valid_moves(&board) is made: the board make_move
\* returned for it is the next board
PlayValidMove ==
    /\ pc = "play"
    /\ steps < MaxPlays
    /\ \E move \in entries(get_valid_moves(board)) :
        /\ board' = move.board
        /\ played' = Append(played, move)
    /\ steps' = steps + 1
    /\ UNCHANGED <<graph, start_board, solution_node, inspection_queue, max_distance_from,
                   pc, op, slide_move, result, valid_moves, edges_added, collision, ui>>

NextPlay == PlayValidMove

SpecPlay == InitPlay /\ [][NextPlay]_vars

---------------------------------------------------------------------------
(* Graph harness: graphs built by add_node and add_edge calls as in test_analyse  *)
(* (src/src/graph/unittest.rs), then analysed                                      *)

\* move_1, move_2 and move_3 of test_analyse
test_moves ==
    <<SlideMove(Coordinates(1, 1), "Down", 1),
      SlideMove(Coordinates(1, 0), "Right", 1),
      SlideMove(Coordinates(2, 1), "Left", 1)>>

\* board_1, board_2 and board_3 of test_analyse
board_1 == get_start_board
board_2 == make_move(board_1, test_moves[1]).board
board_3 == make_move(board_2, test_moves[2]).board

TestBoards == {board_1, board_2, board_3}

InitGraph ==
    /\ graph = Graph_new
    /\ start_board = 0 /\ solution_node = 0
    /\ inspection_queue = <<>>
    /\ max_distance_from = 0
    /\ pc = "build"
    /\ board = 0 /\ op = "none" /\ slide_move = 0 /\ result = 0 /\ valid_moves = <<>>
    /\ steps = 0 /\ edges_added = 0 /\ played = <<>>
    /\ collision \in {{}, {board_2, board_3}}
    /\ ui = WiggersGraaf_new

\* graph.add_node(b), before or after the analysis; the harness keeps the board and
\* the graph it was called on
graph_add_node ==
    /\ pc \in {"build", "done"}
    /\ \E b \in TestBoards :
        /\ IF add_node_panics(graph, b)
           THEN pc' = "panic" /\ UNCHANGED graph
           ELSE graph' = add_node(graph, b) /\ UNCHANGED pc
        /\ board' = b
        /\ result' = [graph |-> graph]
    /\ op' = "add_node"
    /\ UNCHANGED <<start_board, solution_node, inspection_queue, max_distance_from,
                   slide_move, valid_moves, steps, edges_added, played, collision, ui>>

\* graph.add_edge(&from, &to, &move_1); the harness keeps the boards and the graph it
\* was called on
graph_add_edge ==
    /\ pc = "build"
    /\ edges_added < MaxEdges
    /\ \E from \in TestBoards : \E to \in TestBoards :
        /\ IF add_edge_panics(graph, from)
           THEN pc' = "panic" /\ UNCHANGED graph
           ELSE graph' = add_edge(graph, from, to, test_moves[1]) /\ UNCHANGED pc
        /\ board' = from
        /\ result' = [graph |-> graph, to |-> to]
    /\ op' = "add_edge"
    /\ slide_move' = test_moves[1]
    /\ edges_added' = edges_added + 1
    /\ UNCHANGED <<start_board, solution_node, inspection_queue, max_distance_from,
                   valid_moves, steps, played, collision, ui>>

\* graph.analyze(&start, &solution)
graph_analyze ==
    /\ pc = "build"
    /\ \E start \in TestBoards : \E solution \in TestBoards :
        /\ start_board' = start
        /\ solution_node' = solution
        /\ distance_from_enter(to_id(start), "distance_to_start")
    /\ board' = 0 /\ op' = "analyze" /\ slide_move' = 0 /\ result' = 0
    /\ UNCHANGED <<graph, valid_moves, steps, edges_added, played, collision, ui>>

NextGraph ==
    \/ Solver_new
    \/ generate_moves
    \/ analyze
    \/ graph_add_node
    \/ graph_add_edge
    \/ graph_analyze
    \/ distance_from_iteration
    \/ analyze_start_done
    \/ analyze_solution_done

\* the graphs the solver builds and the graphs the harness builds
SpecGraph == (Init \/ InitGraph) /\ [][NextGraph]_vars

\* the variables analyze writes
analyze_vars == <<graph, inspection_queue, max_distance_from, pc>>

\* the graph after add_edge for each pair (from, to) of the list
RECURSIVE add_edges(_, _)
add_edges(g, pairs) ==
    IF pairs = <<>> THEN g
    ELSE add_edges(add_edge(g, pairs[1][1], pairs[1][2], test_moves[1]), Tail(pairs))

\* the graphs of board_1 and board_2 with up to MaxEdges edges, in every order:
\* with cycles, edges from a node to itself and several edges to one neighbor
TestGraphs ==
    {add_edges(add_node(add_node(Graph_new, board_1), board_2), pairs) :
        pairs \in UNION {[1..n -> {board_1, board_2} \X {board_1, board_2}] :
                             n \in 0..MaxEdges}}

\* graph.analyze(&start, &solution) has been called on one of these graphs
InitAnalyze ==
    /\ collision = {}
    /\ graph \in TestGraphs
    /\ start_board \in {board_1, board_2}
    /\ solution_node \in {board_1, board_2}
    /\ inspection_queue = <<QueueEntry(to_id(start_board), 0)>>
    /\ max_distance_from = 0
    /\ pc = "distance_to_start"
    /\ board = 0 /\ op = "none" /\ slide_move = 0 /\ result = 0 /\ valid_moves = <<>>
    /\ steps = 0 /\ edges_added = 0 /\ played = <<>>
    /\ ui = WiggersGraaf_new

\* graph.add_edge(&from, &to, &move_1) on a graph that has been analysed, while it
\* holds fewer than MaxEdges edges; the harness keeps the boards and the graph it
\* was called on
graph_add_edge_analysed ==
    /\ pc = "done"
    /\ EdgeTotal(graph) < MaxEdges
    /\ \E from \in TestBoards : \E to \in TestBoards :
        /\ IF add_edge_panics(graph, from)
           THEN pc' = "panic" /\ UNCHANGED graph
           ELSE graph' = add_edge(graph, from, to, test_moves[1]) /\ UNCHANGED pc
        /\ board' = from
        /\ result' = [graph |-> graph, to |-> to]
    /\ op' = "add_edge"
    /\ slide_move' = test_moves[1]
    /\ edges_added' = edges_added + 1
    /\ UNCHANGED <<start_board, solution_node, inspection_queue, max_distance_from,
                   valid_moves, steps, played, collision, ui>>

NextAnalysed ==
    \/ distance_from_iteration
    \/ analyze_start_done
    \/ analyze_solution_done
    \/ graph_add_edge_analysed

\* analyze on the graphs above, and add_edge calls on the analysed graph
SpecAnalysed == InitAnalyze /\ [][NextAnalysed]_vars

\* analyze runs to its end once called, on the graphs of the solver and on the
\* graphs above: the while loop of distance_from takes its next iteration, and
\* analyze goes on when a distance_from returns
SpecAnalyzeFair ==
    /\ (Init \/ InitAnalyze) /\ [][Next]_vars
    /\ WF_analyze_vars(distance_from_iteration)
    /\ WF_analyze_vars(analyze_start_done)
    /\ WF_analyze_vars(analyze_solution_done)

---------------------------------------------------------------------------
(* The calls of the page on WiggersGraaf, once WiggersGraaf::new has returned, *)
(* the frames of the browser and the ControlEvents of the board view           *)

UnchangedSolverAndHarness ==
    UNCHANGED <<graph, start_board, solution_node, inspection_queue, max_distance_from,
                board, op, slide_move, result, valid_moves, steps, edges_added, played,
                collision>>

\* the task of a do_move whose receiver was resolved runs before the browser
\* delivers anything else
Woken == ui.move_done \in {"sent", "canceled"}

\* the moves view is given the state that set_state shows
views_set_data(u, moves) == set_data(u, moves)

\* the views after set_state(new_state) and what the call returns to the page
after_set_state(new_state, name) ==
    LET moves == set_state(graph, new_state)
    IN  IF moves.panic
        THEN /\ pc' = "panic"
             /\ ui' = [ui EXCEPT !.op = name, !.returned = None]
        ELSE /\ pc' = pc
             /\ ui' = [views_set_data(board_view_set_state(ui), moves.moves)
                          EXCEPT !.move_lock = FALSE, !.active_state = Some(new_state),
                                 !.move_done = "idle", !.move_info = None,
                                 !.moves = moves.moves, !.op = name,
                                 !.returned = Some(moves.moves)]

\* preview_move that does not look at the lock
preview_move_unlocked ==
    /\ pc = "done" /\ ~Woken
    /\ \E move_info \in entries(ui.moves) :
           ui' = [schedule(animate(ui, Some(Animation(move_info.slide_move, "Loop")),
                                   "dropped"))
                      EXCEPT !.op = "preview_move", !.returned = None]
    /\ UNCHANGED pc
    /\ UnchangedSolverAndHarness

\* preview_move(move_info), for a MoveInfo the page holds
preview_move ==
    /\ pc = "done" /\ ~Woken
    /\ \E move_info \in entries(ui.moves) :
           ui' = IF ui.move_lock
                 THEN [ui EXCEPT !.op = "preview_move", !.returned = None]
                 ELSE [schedule(animate(ui, Some(Animation(move_info.slide_move, "Loop")),
                                        "dropped"))
                           EXCEPT !.op = "preview_move", !.returned = None]
    /\ UNCHANGED pc
    /\ UnchangedSolverAndHarness

cancel_preview ==
    /\ pc = "done" /\ ~Woken
    /\ ui' = IF ui.move_lock
             THEN [ui EXCEPT !.op = "cancel_preview", !.returned = None]
             ELSE [schedule(animate(ui, None, "dropped"))
                       EXCEPT !.op = "cancel_preview", !.returned = None]
    /\ UNCHANGED pc
    /\ UnchangedSolverAndHarness

\* do_move(move_info) up to its await: None is returned while a move is going on,
\* else the lock is taken, the animation of the move is started and its receiver
\* is awaited
do_move_until_await(u, move_info, name) ==
    IF u.move_lock
    THEN [u EXCEPT !.op = name, !.returned = None]
    ELSE [schedule(animate(u, Some(Animation(move_info.slide_move, "None")), "do_move"))
              EXCEPT !.move_lock = TRUE,
                     !.move_done = "waiting",
                     !.move_info = Some(move_info),
                     !.op = name, !.returned = None]

do_move ==
    /\ pc = "done" /\ ~Woken
    /\ \E move_info \in entries(ui.moves) :
           ui' = do_move_until_await(ui, move_info, "do_move")
    /\ UNCHANGED pc
    /\ UnchangedSolverAndHarness

\* do_move from its await on: the receiver was resolved, set_state is called with
\* the MoveInfo's resulting_id and the lock is dropped; a receiver whose sender was
\* dropped fails the expect
do_move_done ==
    /\ pc = "done"
    /\ ui.move_lock /\ is_some(ui.move_info)
    /\ Woken
    /\ IF ui.move_done = "canceled"
       THEN /\ pc' = "panic"    \* "Unable to finish move"
            /\ ui' = [ui EXCEPT !.op = "do_move_done", !.returned = None]
       ELSE after_set_state(unwrap(ui.move_info).resulting_id, "do_move_done")
    /\ UnchangedSolverAndHarness

\* restart that also clears the labels of the first traversal
restart_clears_labels ==
    /\ pc = "done" /\ ~Woken
    /\ ui' = [ui EXCEPT !.op = "restart", !.returned = None]
    /\ graph' = [graph EXCEPT !.map = [id \in DOMAIN graph.map |->
                     [graph.map[id] EXCEPT !.distance_to_start = None]]]
    /\ UNCHANGED <<pc, start_board, solution_node, inspection_queue, max_distance_from,
                   board, op, slide_move, result, valid_moves, steps, edges_added,
                   played, collision>>

\* restart(); start_board holds what get_start_board() returns
restart ==
    /\ pc = "done" /\ ~Woken
    /\ IF ui.move_lock
       THEN /\ ui' = [ui EXCEPT !.op = "restart", !.returned = None]
            /\ UNCHANGED pc
       ELSE after_set_state(to_id(start_board), "restart")
    /\ UnchangedSolverAndHarness

\* the browser runs the frame callback it owes
animation_frame ==
    /\ pc = "done" /\ ~Woken
    /\ ui.frame_requests > 0
    /\ \E finished \in BOOLEAN :
           ui' = [on_frame(ui, finished) EXCEPT !.op = "frame", !.returned = None]
    /\ UNCHANGED pc
    /\ UnchangedSolverAndHarness

\* the positions of the pieces the board view shows
shown_pieces ==
    IF is_some(ui.active_state)
    THEN {piece.position : piece \in entries(graph.map[unwrap(ui.active_state)].board.pieces)}
    ELSE {}

\* handle_pointer_event(ControlEvent::Down): a drag starts if a piece lies under the
\* cursor, and a frame is scheduled if the event was handled
pointer_down ==
    /\ pc = "done" /\ ~Woken
    /\ \E piece \in {None} \cup {Some(p) : p \in shown_pieces} :
           ui' = [(IF is_some(piece) THEN schedule(start_drag(ui, piece)) ELSE ui)
                      EXCEPT !.op = "Down", !.returned = None]
    /\ UNCHANGED pc
    /\ UnchangedSolverAndHarness

\* handle_pointer_event(ControlEvent::Up) of a drag that made no move: the piece is
\* animated back to its place
pointer_up ==
    /\ pc = "done" /\ ~Woken
    /\ ui' = [(IF ui.dynamic_element.kind = "Drag" THEN schedule(stop_drag(ui)) ELSE ui)
                  EXCEPT !.op = "Up", !.returned = None]
    /\ UNCHANGED pc
    /\ UnchangedSolverAndHarness

NextUI ==
    \/ Solver_new
    \/ generate_moves
    \/ analyze
    \/ distance_from_iteration
    \/ analyze_start_done
    \/ analyze_solution_done
    \/ preview_move
    \/ cancel_preview
    \/ do_move
    \/ do_move_done
    \/ restart
    \/ animation_frame
    \/ pointer_down
    \/ pointer_up

\* the button of a listed move is clicked: do_move(move_info); the count of the
\* moves of auto-solve is no longer followed
move_button_click ==
    /\ pc = "done" /\ ~Woken
    /\ Cardinality(ui.timeouts) < MaxTimeouts
    /\ \E move_info \in entries(ui.moves) :
           ui' = [do_move_until_await(ui, move_info, "click")
                      EXCEPT !.auto_start = IF ui.move_lock THEN @ ELSE None,
                             !.auto_moves = IF ui.move_lock THEN @ ELSE 0]
    /\ UNCHANGED pc
    /\ UnchangedSolverAndHarness

\* the restart button is clicked: MovesView::restart switches auto-solve off and
\* calls restart()
restart_button_click ==
    /\ pc = "done" /\ ~Woken
    /\ LET off == [set_auto_solve(ui, FALSE) EXCEPT !.auto_start = None, !.auto_moves = 0]
       IN  IF off.move_lock
           THEN /\ ui' = [off EXCEPT !.op = "restart", !.returned = None]
                /\ UNCHANGED pc
           ELSE LET moves == set_state(graph, to_id(start_board))
                IN  IF moves.panic
                    THEN /\ pc' = "panic"
                         /\ ui' = [off EXCEPT !.op = "restart", !.returned = None]
                    ELSE /\ pc' = pc
                         /\ ui' = [views_set_data(board_view_set_state(off), moves.moves)
                                      EXCEPT !.active_state = Some(to_id(start_board)),
                                             !.moves = moves.moves, !.op = "restart",
                                             !.returned = Some(moves.moves)]
    /\ UnchangedSolverAndHarness

\* the auto-solve button is clicked: toggle_auto_solve()
toggle_auto_solve ==
    /\ pc = "done" /\ ~Woken
    /\ ui.auto_solve_enabled \/ Cardinality(ui.timeouts) < MaxTimeouts
    /\ ui' = [set_auto_solve(ui, ~ui.auto_solve_enabled)
                  EXCEPT !.op = "toggle_auto_solve", !.returned = None,
                         !.auto_moves = 0,
                         !.auto_start =
                             IF /\ ~ui.auto_solve_enabled /\ is_some(ui.active_state)
                                /\ ~ui.move_lock
                             THEN graph.map[unwrap(ui.active_state)].distance_to_solution
                             ELSE None]
    /\ UNCHANGED pc
    /\ UnchangedSolverAndHarness

\* a timeout set by queue_best_move fires: do_best_move() calls do_move with the
\* best move, if there is one
do_best_move ==
    /\ pc = "done" /\ ~Woken
    /\ \E id \in ui.timeouts :
           LET fired == [ui EXCEPT !.timeouts = @ \ {id}]
           IN  ui' = IF is_some(fired.best_move)
                     THEN [do_move_until_await(fired, unwrap(fired.best_move),
                                               "do_best_move")
                               EXCEPT !.auto_moves =
                                          IF fired.move_lock \/ ~is_some(fired.auto_start)
                                          THEN @ ELSE @ + 1]
                     ELSE [fired EXCEPT !.op = "do_best_move", !.returned = None]
    /\ UNCHANGED pc
    /\ UnchangedSolverAndHarness

NextAutoSolve ==
    \/ Solver_new
    \/ generate_moves
    \/ analyze
    \/ distance_from_iteration
    \/ analyze_start_done
    \/ analyze_solution_done
    \/ move_button_click
    \/ restart_button_click
    \/ toggle_auto_solve
    \/ do_best_move
    \/ do_move_done
    \/ animation_frame

\* the page is followed on the two smallest start arrangements
InitUI == Init /\ start_board \in {Layouts[1], Layouts[2]}

\* WiggersGraaf::new and the calls of the page, the frames and the ControlEvents
\* that follow
SpecUI == InitUI /\ [][NextUI]_vars

\* StatefulViews with its moves view: the clicks on the buttons of the moves view,
\* the timeouts of auto-solve and the frames
SpecAutoSolve == InitUI /\ [][NextAutoSolve]_vars

\* the frame in which update_to finds its animation at its end
animation_frame_finishing ==
    animation_frame /\ ui'.dynamic_element.kind = "None"

\* SpecUI with the scheduling of the browser: a woken task runs, a frame that is
\* owed is delivered, and the timestamps of the frames grow past the end of any
\* sequence. Weak fairness of each, with the states in which the step can be
\* taken written out
SpecUIFair ==
    /\ SpecUI
    /\ ([]<>(~(pc = "done" /\ Woken)) \/ []<><<do_move_done>>_vars)
    /\ ([]<>(~(pc = "done" /\ ~Woken /\ ui.frame_requests > 0))
            \/ []<><<animation_frame>>_vars)
    /\ ([]<>(~(/\ pc = "done" /\ ~Woken /\ ui.frame_requests > 0
               /\ ui.dynamic_element.kind = "Animation"
               /\ ui.dynamic_element.animation.repeat = "None"
               /\ is_some(ui.dynamic_element.start_time)))
            \/ []<><<animation_frame_finishing>>_vars)

---------------------------------------------------------------------------
(* The pointer events the browser gives to the board view's Controls *)

\* the kinds of PointerEvent and the pointer ids of two fingers
PointerEvents == {"Down", "Up", "Move", "TouchMove", "Wheel"}

Pointers == {1, 2}

InitControls ==
    /\ graph = 0 /\ start_board = 0 /\ solution_node = 0 /\ inspection_queue = <<>>
    /\ max_distance_from = 0 /\ pc = "controls"
    /\ board = 0 /\ op = "new" /\ slide_move = 0 /\ result = 0 /\ valid_moves = <<>>
    /\ steps = 0 /\ edges_added = 0 /\ played = <<>> /\ collision = {}
    /\ ui = WiggersGraaf_new

\* the pointer handler calls handle_event; the history of what was forwarded is kept
PointerEvent ==
    /\ pc = "controls"
    /\ Len(ui.forwarded) < MaxEvents
    /\ \E event \in PointerEvents : \E index \in Pointers : \E cb \in BOOLEAN :
           LET r == handle_event(ui.drag_pointer_index, event, index, cb)
           IN  ui' = [ui EXCEPT !.drag_pointer_index = r.drag_pointer_index,
                               !.forwarded = @ \o r.forwarded,
                               !.op = event, !.returned = r.handled]
    /\ UNCHANGED pc
    /\ UnchangedSolverAndHarness

NextControls == PointerEvent

SpecControls == InitControls /\ [][NextControls]_vars

---------------------------------------------------------------------------
(* Reference notions the claims are stated with, independent of is_valid *)

\* the grid cells a piece covers
CellsOf(piece) ==
    {Coordinates(x, y) :
        x \in piece.position.x..(piece.position.x + piece.size.x - 1),
        y \in piece.position.y..(piece.position.y + piece.size.y - 1)}

\* a board is valid: every piece inside the grid, no cell covered twice
ValidByCells(b) ==
    /\ \A i \in 1..Len(b.pieces) : CellsOf(b.pieces[i]) \subseteq Cells
    /\ \A i \in 1..Len(b.pieces) : \A j \in 1..Len(b.pieces) :
           i # j => CellsOf(b.pieces[i]) \cap CellsOf(b.pieces[j]) = {}

\* piece i of b, moved k cells in `direction`, lies inside the grid on cells that no
\* other piece of b covers
FreeAt(b, i, direction, k) ==
    LET p == b.pieces[i]
        q == [p EXCEPT !.position = get_endpoint(SlideMove(p.position, direction, k))]
    IN  /\ CellsOf(q) \subseteq Cells
        /\ \A j \in 1..Len(b.pieces) : j # i => CellsOf(q) \cap CellsOf(b.pieces[j]) = {}

\* piece i of b can be moved one cell at a time d times in `direction`
SlidePossible(b, i, direction, d) == \A k \in 1..d : FreeAt(b, i, direction, k)

DirectionSet == {SlideDirections[d] : d \in 1..Len(SlideDirections)}

DirRank(direction) ==
    CASE direction = "Up" -> 1 [] direction = "Down" -> 2
      [] direction = "Left" -> 3 [] direction = "Right" -> 4

Opposite(direction) ==
    CASE direction = "Up" -> "Down" [] direction = "Down" -> "Up"
      [] direction = "Left" -> "Right" [] direction = "Right" -> "Left"

\* the longest slide get_valid_moves tries
MaxSlide == Max(SIZE.x, SIZE.y) - 1

\* some piece of b has its position at c
PieceAt(b, c) == \E i \in 1..Len(b.pieces) : b.pieces[i].position = c

\* the ids a node's edges lead to
Neighbors(g, id) ==
    IF id \in DOMAIN g.map
    THEN {g.map[id].edges[e].neighbor : e \in 1..Len(g.map[id].edges)}
    ELSE {}

\* ids by layers: `found` maps every id at most k edges from the origin to its
\* number of edges, `frontier` are the ids exactly k edges away
RECURSIVE PathLengths(_, _, _, _)
PathLengths(g, found, frontier, k) ==
    IF frontier = {} THEN found
    ELSE LET next == UNION {Neighbors(g, id) : id \in frontier} \ DOMAIN found
         IN  PathLengths(g, [id \in next |-> k + 1] @@ found, next, k + 1)

\* for every id reachable from `from` along directed edges, the number of edges of a
\* shortest path
ShortestPaths(g, from) == PathLengths(g, [id \in {from} |-> 0], {from}, 0)

\* the boards reachable by moves of get_valid_moves, by layers
RECURSIVE BoardClosure(_, _)
BoardClosure(seen, frontier) ==
    IF frontier = {} THEN seen
    ELSE LET next == UNION {{get_valid_moves(b)[k].board : k \in 1..Len(get_valid_moves(b))}
                                : b \in frontier} \ seen
         IN  BoardClosure(seen \cup next, next)

ReachableBoards(b) == BoardClosure({b}, {b})

---------------------------------------------------------------------------
(* Claims about the solver and the graph *)

\* C1: after Solver::new() every node of graph.map has distance_to_start and
\* distance_to_solution set.
C1_AllNodesLabelled ==
    pc = "done" =>
        \A id \in DOMAIN graph.map :
            /\ is_some(graph.map[id].distance_to_start)
            /\ is_some(graph.map[id].distance_to_solution)

\* the solver has finished on a graph with boards five and more edges from the solution
C1_Witness ==
    /\ pc = "done"
    /\ \E id \in DOMAIN graph.map :
           /\ is_some(graph.map[id].distance_to_solution)
           /\ unwrap(graph.map[id].distance_to_solution) >= 5
           /\ is_some(graph.map[id].distance_to_start)

\* C2: after analyze, every node reachable from the start node along directed edges
\* has distance_to_start = the number of edges of a shortest path from the start
\* node, also in graphs with cycles; likewise distance_to_solution from the
\* solution node.
C2_ShortestDistances ==
    pc = "done" =>
        LET from_start == ShortestPaths(graph, to_id(start_board))
            from_solution == ShortestPaths(graph, to_id(solution_node))
        IN  \A id \in DOMAIN graph.map :
                /\ id \in DOMAIN from_start =>
                       graph.map[id].distance_to_start = Some(from_start[id])
                /\ id \in DOMAIN from_solution =>
                       graph.map[id].distance_to_solution = Some(from_solution[id])

\* a graph of the harness with a cycle of three edges through the start node, which
\* is not the solution node
C2_Witness ==
    /\ pc = "done" /\ edges_added >= 3
    /\ start_board # solution_node
    /\ graph.map[to_id(start_board)].distance_to_start = Some(0)
    /\ \E id \in DOMAIN graph.map :
           /\ graph.map[id].distance_to_start = Some(2)
           /\ to_id(start_board) \in Neighbors(graph, id)

\* generate_moves has just returned (no traversal step has been taken yet), or
\* Solver::new has returned
DiscoveryFinished ==
    \/ pc = "done"
    \/ /\ pc = "distance_to_start"
       /\ to_id(start_board) \in DOMAIN graph.map
       /\ ~is_some(graph.map[to_id(start_board)].distance_to_start)

\* C3: after Solver::new() graph.map holds one node for each board reachable from
\* the start board by moves of get_valid_moves and one for the solved board:
\* node_count() = (number of reachable boards) + 1.
C3_OneNodePerReachableBoard ==
    DiscoveryFinished =>
        LET reachable == ReachableBoards(start_board)
        IN  /\ DOMAIN graph.map = {to_id(b) : b \in reachable} \cup {to_id(get_solved_board)}
            /\ \A b \in reachable : board_eq(graph.map[to_id(b)].board, b)
            /\ node_count(graph) = Cardinality(reachable) + 1

\* the solver has finished on a start board with twenty reachable boards or more
C3_Witness == pc = "done" /\ node_count(graph) > 20

---------------------------------------------------------------------------
(* Claims about the board functions, under SpecBoard *)

\* C4: get_valid_moves(b) returns exactly the slides (piece, direction, d with
\* 1 <= d <= 4) that can be made one cell at a time through valid boards: none is
\* missing, no other is returned, and each returned board is make_move(b, move).
C4_ValidMovesExact ==
    op = "get_valid_moves" =>
        /\ \A k \in 1..Len(valid_moves) :
            LET m == valid_moves[k].slide_move
                i == find_piece(board, m.start)
                r == make_move(board, m)
            IN  /\ i # 0
                /\ m.direction \in DirectionSet
                /\ m.distance \in 1..MaxSlide
                /\ SlidePossible(board, i, m.direction, m.distance)
                /\ r.ok
                /\ valid_moves[k].board = r.board
        /\ \A i \in 1..Len(board.pieces) : \A direction \in DirectionSet :
            \A d \in 1..MaxSlide :
                SlidePossible(board, i, direction, d) =>
                    \E k \in 1..Len(valid_moves) :
                        valid_moves[k].slide_move
                            = SlideMove(board.pieces[i].position, direction, d)

\* a piece is blocked next to it although a cell further on is free, and a slide
\* of two or more cells was returned
C4_Witness ==
    /\ op = "get_valid_moves"
    /\ \E k \in 1..Len(valid_moves) : valid_moves[k].slide_move.distance >= 2
    /\ \E i \in 1..Len(board.pieces) : \E direction \in DirectionSet :
           ~FreeAt(board, i, direction, 1) /\ FreeAt(board, i, direction, 2)

\* C5: if make_move fails for distance d, it fails for every distance d' > d in the
\* same direction from the same start.
C5_FailureIsMonotonic ==
    (op = "make_move" /\ ~result.ok) =>
        \A d \in (slide_move.distance + 1)..MaxDistance :
            ~make_move(board, [slide_move EXCEPT !.distance = d]).ok

\* C6: the results are ordered by piece (stored order), then by direction (Up,
\* Down, Left, Right), then by strictly increasing distance, and the distances of
\* one (piece, direction) are 1..k.
C6_ValidMovesOrdered ==
    op = "get_valid_moves" =>
        \A k \in 1..Len(valid_moves) :
            LET m == valid_moves[k].slide_move
                i == find_piece(board, m.start)
            IN  /\ i # 0
                /\ IF m.distance > 1
                   THEN /\ k > 1
                        /\ valid_moves[k - 1].slide_move = [m EXCEPT !.distance = m.distance - 1]
                   ELSE /\ m.distance = 1
                        /\ k > 1 =>
                            LET n == valid_moves[k - 1].slide_move
                                j == find_piece(board, n.start)
                            IN  \/ j < i
                                \/ j = i /\ DirRank(n.direction) < DirRank(m.direction)

\* results of two pieces, of two directions of one piece and of several distances
C6_Witness ==
    /\ op = "get_valid_moves"
    /\ \E k \in 1..Len(valid_moves) : valid_moves[k].slide_move.distance = 3
    /\ \E k \in 2..Len(valid_moves) :
           /\ valid_moves[k].slide_move.start = valid_moves[k - 1].slide_move.start
           /\ valid_moves[k].slide_move.direction # valid_moves[k - 1].slide_move.direction

\* C7: get_valid_moves(get_start_board()) is (0,0) Right 1, (0,0) Right 2,
\* (1,1) Down 1, (2,1) Down 1, (3,0) Left 1, (3,0) Left 2, in this order.
C7_StartBoardMoves ==
    (op = "get_valid_moves" /\ board = get_start_board) =>
        [k \in 1..Len(valid_moves) |-> valid_moves[k].slide_move]
            = <<SlideMove(Coordinates(0, 0), "Right", 1),
                SlideMove(Coordinates(0, 0), "Right", 2),
                SlideMove(Coordinates(1, 1), "Down", 1),
                SlideMove(Coordinates(2, 1), "Down", 1),
                SlideMove(Coordinates(3, 0), "Left", 1),
                SlideMove(Coordinates(3, 0), "Left", 2)>>

C7_Witness == op = "get_valid_moves" /\ board = get_start_board /\ Len(valid_moves) = 6

\* C8: after a successful make_move(b, m), make_move of the result with the move
\* (endpoint of m, opposite direction, same distance) succeeds and gives b back.
C8_RoundTrip ==
    (op = "make_move" /\ result.ok) =>
        LET back == SlideMove(get_endpoint(slide_move), Opposite(slide_move.direction),
                              slide_move.distance)
            r == make_move(result.board, back)
        IN  /\ r.ok
            /\ board_eq(r.board, board)
            /\ to_id(r.board) = to_id(board)

\* a move of two cells or more that changed the order of the pieces
C8_Witness ==
    /\ op = "make_move" /\ result.ok
    /\ slide_move.distance >= 2
    /\ \E i \in 1..Len(board.pieces) :
           /\ board.pieces[i].position = slide_move.start
           /\ result.board.pieces[i].position # get_endpoint(slide_move)

\* C9: make_move returns a valid board or an error; it returns an error whenever
\* the moved piece would end outside the grid or on another piece; the board it
\* was given is unchanged.
C9_ValidBoardOrError ==
    [][op' = "make_move" =>
        /\ board' = board
        /\ result'.ok => ValidByCells(result'.board)
        /\ \A i \in 1..Len(board.pieces) :
               (/\ board.pieces[i].position = slide_move'.start
                /\ ~FreeAt(board, i, slide_move'.direction, slide_move'.distance))
                   => ~result'.ok]_vars

\* a move was refused because the piece would leave the grid, and one was accepted
C9_WitnessRefused ==
    /\ op = "make_move" /\ ~result.ok
    /\ \E i \in 1..Len(board.pieces) :
           /\ board.pieces[i].position = slide_move.start
           /\ ~(CellsOf([board.pieces[i] EXCEPT !.position = get_endpoint(slide_move)])
                    \subseteq Cells)

\* C10: make_move returns an error and no board when no piece has its position at
\* m.start, also when m.start is covered by a piece whose position is another cell.
C10_NoPieceAtStart ==
    (op = "make_move" /\ ~PieceAt(board, slide_move.start)) =>
        /\ ~result.ok
        /\ result.err = "No piece to move"
        /\ result.board = <<>>

\* the start is a cell of a larger piece, not its bottom-left cell
C10_Witness ==
    /\ op = "make_move" /\ ~PieceAt(board, slide_move.start) /\ ~result.ok
    /\ \E i \in 1..Len(board.pieces) : slide_move.start \in CellsOf(board.pieces[i])

---------------------------------------------------------------------------
(* Claims about ids and the order of the pieces *)

\* the number of entries of `pieces` equal to p
CountOf(pieces, p) == Cardinality({i \in 1..Len(pieces) : pieces[i] = p})

\* a and b are the same physical arrangement: boards of one size whose piece arrays
\* are permutations of each other
SameArrangement(a, b) ==
    /\ a.size = b.size
    /\ Len(a.pieces) = Len(b.pieces)
    /\ \A i \in 1..Len(a.pieces) :
           CountOf(a.pieces, a.pieces[i]) = CountOf(b.pieces, a.pieces[i])

\* the pieces are in the order of piece_lt
IsSorted(pieces) ==
    \A i \in 1..Len(pieces) : \A j \in (i + 1)..Len(pieces) : ~piece_lt(pieces[j], pieces[i])

\* C11: for all valid boards to_id is deterministic, and two boards whose piece
\* arrays are permutations of each other (same arrangement, same size) have equal
\* ids.
C11_IdOfArrangement ==
    op = "to_id" =>
        /\ result.id = to_id(board)
        /\ (/\ is_valid(board) /\ is_valid(result.other)
            /\ SameArrangement(board, result.other))
               => result.other_id = result.id

\* the boards the play harness has seen: the two constructors' and make_move's
BoardsMade ==
    {get_start_board, get_solved_board, board} \cup {played[k].board : k \in 1..Len(played)}

\* C12: every board of get_start_board, get_solved_board or make_move has its
\* pieces sorted, so two such boards with the same set of pieces are equal and have
\* the same id, whichever pieces were moved to get there (stated of the board made
\* last and every board made before it).
C12_CanonicalOrder ==
    pc = "play" =>
        /\ IsSorted(get_start_board.pieces) /\ IsSorted(get_solved_board.pieces)
        /\ IsSorted(board.pieces)
        /\ \A b \in BoardsMade :
               SameArrangement(board, b) => board_eq(board, b) /\ to_id(board) = to_id(b)

\* the four moves of test_analyse, which exchange the pieces at (1,1) and (2,1) of
\* the start board
C12_Witness ==
    /\ pc = "play" /\ Len(played) = 4
    /\ played[1].slide_move = test_moves[1]
    /\ played[2].slide_move = test_moves[2]
    /\ played[3].slide_move = test_moves[3]
    /\ played[4].slide_move = SlideMove(Coordinates(2, 0), "Up", 1)
    /\ board_eq(board, get_start_board)
    /\ ~board_eq(played[2].board, get_start_board)

---------------------------------------------------------------------------
(* Claims about is_valid and is_solution, under SpecBoard *)

\* C13: is_valid(b) holds iff every cell of every piece lies inside the grid and
\* no grid cell is covered by two pieces; pieces that only touch do not collide.
\* Stated of is_valid applied to the harness's board and of the is_valid call of
\* make_move, which is applied to the board with the piece moved.
C13_ValidIffCells ==
    /\ op = "is_valid" => (result <=> ValidByCells(board))
    /\ (op = "make_move" /\ find_piece(board, slide_move.start) # 0) =>
           (result.ok <=>
               ValidByCells(new_board_of(board, find_piece(board, slide_move.start),
                                         slide_move)))

\* a piece was moved onto another piece, every piece staying inside the grid, and
\* the move was refused
C13_Witness ==
    /\ op = "make_move" /\ ~result.ok
    /\ find_piece(board, slide_move.start) # 0
    /\ LET b == new_board_of(board, find_piece(board, slide_move.start), slide_move)
       IN  /\ \A i \in 1..Len(b.pieces) : CellsOf(b.pieces[i]) \subseteq Cells
           /\ \E i \in 1..Len(b.pieces) : \E j \in 1..Len(b.pieces) :
                  i # j /\ CellsOf(b.pieces[i]) \cap CellsOf(b.pieces[j]) # {}

\* C14: is_valid(get_start_board()) and is_valid(get_solved_board()) both hold.
C14_StartAndSolvedValid ==
    (op = "is_valid" /\ board \in {get_start_board, get_solved_board}) => result = TRUE

C14_Witness == op = "is_valid" /\ steps = 0 /\ board = get_solved_board /\ result = TRUE

\* the cells of a 2x2 piece whose position is (1,0)
SolutionCells == {Coordinates(x, y) : x \in 1..2, y \in 0..1}

\* C15: is_solution(get_start_board()) is false, is_solution(get_solved_board()) is
\* true, and is_solution(b) holds iff some piece of b is the 2x2 piece at (1,0).
C15_SolutionPredicate ==
    op = "is_solution" =>
        /\ board = get_start_board => result = FALSE
        /\ board = get_solved_board => result = TRUE
        /\ result <=> \E i \in 1..Len(board.pieces) : CellsOf(board.pieces[i]) = SolutionCells

\* is_solution was applied to the solved board
C15_Witness == op = "is_solution" /\ steps = 0 /\ board = get_solved_board /\ result = TRUE

---------------------------------------------------------------------------
(* Claims about add_node and add_edge, under SpecGraph *)

\* the graph holds a node whose board equals b
HoldsEqualBoard(g, b) == \E id \in DOMAIN g.map : board_eq(g.map[id].board, b)

\* C16: add_node is idempotent: add_node with a board equal to one already in the
\* graph leaves node_count(), the node's edges and its distance fields unchanged.
C16_AddNodeIdempotent ==
    (op = "add_node" /\ HoldsEqualBoard(result.graph, board)) =>
        /\ pc # "panic"
        /\ node_count(graph) = node_count(result.graph)
        /\ to_id(board) \in DOMAIN graph.map
        /\ graph.map[to_id(board)] = result.graph.map[to_id(board)]
        /\ graph = result.graph

\* add_node was given the board of a node with edges and distances
C16_Witness ==
    /\ op = "add_node" /\ HoldsEqualBoard(result.graph, board)
    /\ Len(result.graph.map[to_id(board)].edges) >= 2
    /\ is_some(result.graph.map[to_id(board)].distance_to_start)
    /\ is_some(result.graph.map[to_id(board)].distance_to_solution)
    /\ node_count(graph) >= 2

\* the id of b is the key of a node of g whose board is another one
IdTakenByOtherBoard(g, b) ==
    to_id(b) \in DOMAIN g.map /\ ~board_eq(g.map[to_id(b)].board, b)

\* C17: add_node(board) aborts when the graph holds a node with the same id whose
\* board is not equal to the new board; the node is never overwritten.
C17_CollisionIsFatal ==
    (op = "add_node" /\ IdTakenByOtherBoard(result.graph, board)) =>
        /\ pc = "panic"
        /\ graph = result.graph

\* add_node was given a board whose id is taken by another board's node
C17_Witness ==
    /\ op = "add_node" /\ IdTakenByOtherBoard(result.graph, board)
    /\ pc = "panic"
    /\ Len(graph.map[to_id(board)].edges) >= 1

\* C18: add_edge(from, to, m) aborts when from's id is not a key of the graph; it
\* does not require to's node to exist: with from's node in the graph the edge
\* (to's id, m) is appended to from's edges.
C18_AddEdgeNeedsSource ==
    op = "add_edge" =>
        IF to_id(board) \notin DOMAIN result.graph.map
        THEN pc = "panic" /\ graph = result.graph
        ELSE /\ pc # "panic"
             /\ graph.map[to_id(board)].edges =
                    Append(result.graph.map[to_id(board)].edges,
                           Edge(to_id(result.to), slide_move))
             /\ DOMAIN graph.map = DOMAIN result.graph.map

\* add_edge was given a source board that has no node, and a target that has one
C18_Witness ==
    /\ op = "add_edge" /\ pc = "panic"
    /\ to_id(board) \notin DOMAIN result.graph.map
    /\ to_id(result.to) \in DOMAIN result.graph.map

\* add_edge was given a target board that has no node
C18_DanglingEdge ==
    /\ op = "add_edge" /\ pc = "build"
    /\ to_id(result.to) \notin DOMAIN graph.map

---------------------------------------------------------------------------
(* Claims about the solved anchor, under Spec *)

\* the number of edges of node `from` that lead to `to`
EdgeCount(g, from, to) ==
    Cardinality({e \in 1..Len(g.map[from].edges) : g.map[from].edges[e].neighbor = to})

\* C19: after discovery a discovered board's node has an edge to the solved anchor
\* iff is_solution holds of the board; for each such board the anchor has exactly
\* one edge back to it; the anchor has no other outgoing edges.
C19_AnchorEdges ==
    DiscoveryFinished =>
        LET anchor == to_id(solution_node)
            discovered == DOMAIN graph.map \ {anchor}
        IN  /\ anchor \in DOMAIN graph.map
            /\ \A id \in discovered :
                   /\ EdgeCount(graph, id, anchor) >= 1 <=> is_solution(graph.map[id].board)
                   /\ is_solution(graph.map[id].board) => EdgeCount(graph, anchor, id) = 1
            /\ \A e \in 1..Len(graph.map[anchor].edges) :
                   /\ graph.map[anchor].edges[e].neighbor \in discovered
                   /\ is_solution(graph.map[graph.map[anchor].edges[e].neighbor].board)

\* discovery has finished on a graph with several solutions and several boards that
\* are not solutions
C19_Witness ==
    /\ DiscoveryFinished /\ pc = "done"
    /\ Len(graph.map[to_id(solution_node)].edges) >= 3
    /\ Cardinality({id \in DOMAIN graph.map : ~is_solution(graph.map[id].board)}) >= 3

\* C20: no board discovered from the start board equals get_solved_board() or has
\* its id: the anchor is never produced by get_valid_moves and never enters the
\* work queue.
C20_AnchorNeverDiscovered ==
    /\ pc = "generate_moves" =>
           \A k \in 1..Len(inspection_queue) :
               /\ ~board_eq(inspection_queue[k], get_solved_board)
               /\ to_id(inspection_queue[k]) # to_id(get_solved_board)
    /\ DiscoveryFinished =>
           \A b \in ReachableBoards(start_board) :
               /\ ~board_eq(b, get_solved_board)
               /\ to_id(b) # to_id(get_solved_board)

\* discovery has finished with boards that are solutions among the boards discovered
C20_Witness ==
    /\ DiscoveryFinished /\ pc = "distance_to_start"
    /\ node_count(graph) > 20
    /\ \E id \in DOMAIN graph.map \ {to_id(get_solved_board)} :
           is_solution(graph.map[id].board)

---------------------------------------------------------------------------
(* Claims about the course of Solver::new *)

\* generate_moves has returned: its work queue was found empty
DiscoveryReturned == pc \in {"distance_to_start", "distance_to_solution", "done"}

\* C21: discovery always terminates: starting from the start board, the work queue
\* of generate_moves eventually becomes empty.
C21_DiscoveryTerminates == <>DiscoveryReturned

\* generate_moves has returned with more than twenty boards discovered
C21_Witness ==
    /\ DiscoveryFinished /\ pc = "distance_to_start"
    /\ inspection_queue = <<QueueEntry(to_id(start_board), 0)>>
    /\ node_count(graph) > 21

---------------------------------------------------------------------------
(* Claims about Graph::analyze *)

Traversing == pc \in {"distance_to_start", "distance_to_solution"}

\* the node of the entry at the front of the queue has its field set already
FrontIsVisited ==
    /\ Traversing /\ inspection_queue # <<>>
    /\ Head(inspection_queue).key \in DOMAIN graph.map
    /\ pred_visited(graph.map[Head(inspection_queue).key], pc)

\* C22: during a traversal of analyze a distance field that has been set is never
\* changed again: a later dequeue of the same node leaves the graph as it is and
\* enqueues nothing (first write wins).
C22_FirstWriteWins ==
    [][/\ \A id \in DOMAIN graph.map :
            /\ id \in DOMAIN graph'.map
            /\ is_some(graph.map[id].distance_to_start) =>
                   graph'.map[id].distance_to_start = graph.map[id].distance_to_start
            /\ is_some(graph.map[id].distance_to_solution) =>
                   graph'.map[id].distance_to_solution = graph.map[id].distance_to_solution
       /\ FrontIsVisited =>
            /\ graph' = graph
            /\ inspection_queue' = Tail(inspection_queue)
            /\ max_distance_from' = max_distance_from]_vars

\* a node is dequeued again at a distance that is not the one it holds
C22_Witness ==
    /\ FrontIsVisited
    /\ LET entry == Head(inspection_queue)
           node == graph.map[entry.key]
       IN  /\ node.edges # <<>>
           /\ entry.distance_from #
                  unwrap(IF pc = "distance_to_start" THEN node.distance_to_start
                         ELSE node.distance_to_solution)

\* the labels of one distance field over all nodes of g
LabelsToStart(g) ==
    {unwrap(g.map[id].distance_to_start) :
        id \in {i \in DOMAIN g.map : is_some(g.map[i].distance_to_start)}}

LabelsToSolution(g) ==
    {unwrap(g.map[id].distance_to_solution) :
        id \in {i \in DOMAIN g.map : is_some(g.map[i].distance_to_solution)}}

IsLargestOf(n, labels) == n \in labels /\ \A d \in labels : d <= n

\* C23: after analyze, max_distance_to_start is the largest distance_to_start of all
\* nodes and max_distance_to_solution the largest distance_to_solution, so that an
\* index distance_to_solution into max_distance_to_solution + 1 bins is in range.
C23_MaxDistances ==
    pc = "done" =>
        /\ IsLargestOf(graph.max_distance_to_start, LabelsToStart(graph))
        /\ IsLargestOf(graph.max_distance_to_solution, LabelsToSolution(graph))
        /\ \A id \in DOMAIN graph.map :
               is_some(graph.map[id].distance_to_solution) =>
                   unwrap(graph.map[id].distance_to_solution)
                       \in 0..((graph.max_distance_to_solution + 1) - 1)

\* analyze has returned with two different maxima, neither of them 0
C23_Witness ==
    /\ pc = "done"
    /\ graph.max_distance_to_start >= 2
    /\ graph.max_distance_to_solution >= 1
    /\ graph.max_distance_to_start # graph.max_distance_to_solution
    /\ Cardinality(LabelsToStart(graph)) >= 3

---------------------------------------------------------------------------
(* Claims about the graph generate_moves builds *)

Anchor == to_id(solution_node)

\* C25: during Solver::new() no fatal error is reachable: the node of the solved
\* board is in the graph before the first board is popped, and every add_edge call
\* (for a move and for the two synthetic edges) finds its source node.
C25_NoFatalError ==
    /\ pc # "panic"
    /\ pc # "new" =>
           /\ Anchor \in DOMAIN graph.map
           /\ board_eq(graph.map[Anchor].board, get_solved_board)
    /\ (pc = "generate_moves" /\ inspection_queue # <<>>) =>
           LET current == inspection_queue[Len(inspection_queue)]
               rest == SubSeq(inspection_queue, 1, Len(inspection_queue) - 1)
           IN  /\ ~add_node_panics(graph, current)
               /\ ~generate_moves_body(graph, rest, current, solution_node).panic

\* Solver::new has returned after both synthetic edges were added for two boards
C25_Witness ==
    /\ pc = "done"
    /\ Len(graph.map[Anchor].edges) >= 2
    /\ \E id \in DOMAIN graph.map \ {Anchor} :
           \E k \in 1..Len(graph.map[id].edges) : graph.map[id].edges[k].neighbor = Anchor

\* the edges generate_moves adds for a board whose list of valid moves is `moves`
EdgesOfMoves(moves) ==
    [k \in 1..Len(moves) |-> Edge(to_id(moves[k].board), moves[k].slide_move)]

ExpectedEdges(b) ==
    EdgesOfMoves(get_valid_moves(b))
        \o (IF is_solution(b) THEN <<Edge(Anchor, fake_move)>> ELSE <<>>)

NoEdgeTwice(edges) ==
    \A i \in 1..Len(edges) : \A j \in 1..Len(edges) : i # j => edges[i] # edges[j]

\* C26: at every step of discovery the work queue holds no board twice and no board
\* that is a node of the graph; each discovered node's edge list is its
\* get_valid_moves list in order, followed by the synthetic edge when the board is
\* a solution (compared when the queue is found empty and when Solver::new has
\* returned), and no edge list holds a (neighbor, move) pair twice.
C26_QueueAndEdgeLists ==
    /\ pc = "generate_moves" =>
           /\ \A i \in 1..Len(inspection_queue) : \A j \in 1..Len(inspection_queue) :
                  i # j => /\ ~board_eq(inspection_queue[i], inspection_queue[j])
                           /\ to_id(inspection_queue[i]) # to_id(inspection_queue[j])
           /\ \A i \in 1..Len(inspection_queue) :
                  ~contains_node(graph, inspection_queue[i])
    /\ \A id \in DOMAIN graph.map : NoEdgeTwice(graph.map[id].edges)
    /\ ((pc = "generate_moves" /\ inspection_queue = <<>>) \/ pc = "done") =>
           \A id \in DOMAIN graph.map \ {Anchor} :
               graph.map[id].edges = ExpectedEdges(graph.map[id].board)

\* discovery is under way: boards wait in the queue, and nodes with several edges,
\* one of them a solution, have been expanded
C26_Witness ==
    /\ pc = "generate_moves" /\ Len(inspection_queue) >= 3
    /\ node_count(graph) >= 5
    /\ \E id \in DOMAIN graph.map \ {Anchor} :
           /\ is_solution(graph.map[id].board)
           /\ Len(graph.map[id].edges) >= 3

\* the ids some edge of g points to that are not keys of g
Dangling(g) ==
    {id \in UNION {Neighbors(g, from) : from \in DOMAIN g.map} : id \notin DOMAIN g.map}

\* C27: when discovery has finished every edge of every node points to a key of
\* graph.map; during discovery an edge points to a key or to a board of the work
\* queue; so no lookup of a neighbor, by a traversal or by the UI, fails.
C27_NoDanglingNeighbor ==
    /\ DiscoveryFinished => Dangling(graph) = {}
    /\ pc \in {"distance_to_start", "distance_to_solution"} =>
           /\ Dangling(graph) = {}
           /\ \A k \in 1..Len(inspection_queue) :
                  inspection_queue[k].key \in DOMAIN graph.map
    /\ pc = "generate_moves" =>
           Dangling(graph) \subseteq
               {to_id(inspection_queue[k]) : k \in 1..Len(inspection_queue)}

\* discovery has finished with every node holding edges
C27_Witness ==
    /\ DiscoveryFinished /\ pc = "distance_to_start"
    /\ node_count(graph) > 12
    /\ \A id \in DOMAIN graph.map : graph.map[id].edges # <<>>

\* during discovery an edge points to a board that is only in the work queue
C27_DanglingDuringDiscovery ==
    /\ pc = "generate_moves"
    /\ Dangling(graph) # {}

\* the move that takes the moved piece back
ReverseOf(m) == SlideMove(get_endpoint(m), Opposite(m.direction), m.distance)

HasEdge(g, from, edge) ==
    /\ from \in DOMAIN g.map
    /\ \E k \in 1..Len(g.map[from].edges) : g.map[from].edges[k] = edge

\* the number of edges of a shortest path from id to the anchor, if there is one
ToAnchor(g, id) ==
    LET paths == ShortestPaths(g, id)
    IN  IF Anchor \in DOMAIN paths THEN Some(paths[Anchor]) ELSE None

\* C28: the finished graph is symmetric: an edge u -> v between discovered boards
\* with move (start, direction, d) has an edge v -> u with move (endpoint, opposite
\* direction, d), and an edge to the anchor has the edge back; so distance_to_solution,
\* found along the edges out of the anchor, is the number of edges of a shortest path
\* from the node to the anchor.
C28_SymmetricGraph ==
    /\ DiscoveryFinished =>
           \A u \in DOMAIN graph.map \ {Anchor} :
               \A k \in 1..Len(graph.map[u].edges) :
                   LET edge == graph.map[u].edges[k]
                   IN  IF edge.neighbor = Anchor
                       THEN HasEdge(graph, Anchor, Edge(u, edge.slide_move))
                       ELSE HasEdge(graph, edge.neighbor, Edge(u, ReverseOf(edge.slide_move)))
    /\ pc = "done" =>
           \A id \in DOMAIN graph.map :
               graph.map[id].distance_to_solution = ToAnchor(graph, id)

\* Solver::new has returned with a node three edges or more from the anchor and an
\* edge of a slide over two cells
C28_Witness ==
    /\ pc = "done"
    /\ \E id \in DOMAIN graph.map : graph.map[id].distance_to_solution = Some(3)
    /\ \E id \in DOMAIN graph.map \ {Anchor} :
           \E k \in 1..Len(graph.map[id].edges) :
               /\ graph.map[id].edges[k].slide_move.distance = 2
               /\ graph.map[id].edges[k].neighbor # Anchor

\* C29: after Solver::new() the anchor is the only node with distance_to_solution 0,
\* and a discovered board has distance_to_solution 1 iff it satisfies is_solution.
C29_DistancesZeroAndOne ==
    pc = "done" =>
        \A id \in DOMAIN graph.map :
            /\ graph.map[id].distance_to_solution = Some(0) <=> id = Anchor
            /\ id # Anchor =>
                   (graph.map[id].distance_to_solution = Some(1)
                        <=> is_solution(graph.map[id].board))

\* Solver::new has returned with two solutions and a board two edges from the anchor
C29_Witness ==
    /\ pc = "done"
    /\ Cardinality({id \in DOMAIN graph.map \ {Anchor} :
                        graph.map[id].distance_to_solution = Some(1)}) >= 2
    /\ \E id \in DOMAIN graph.map :
           /\ graph.map[id].distance_to_solution = Some(2)
           /\ ~is_solution(graph.map[id].board)

\* C30: each traversal (distance_from) terminates on any finite graph, with cycles
\* and with several edges to one neighbor: the edges of a node are enqueued at most
\* once per traversal, so the queue never holds more than one entry per edge besides
\* the origin, and it eventually empties (or the traversal aborts).
C30_TraversalTerminates ==
    /\ [](Traversing => Len(inspection_queue) <= 1 + EdgeTotal(graph))
    /\ (pc = "distance_to_start") ~> (pc # "distance_to_start")
    /\ (pc = "distance_to_solution") ~> (pc # "distance_to_solution")
    /\ Traversing ~> (inspection_queue = <<>> \/ pc = "panic")

\* analyze has returned on a graph with a cycle and two edges to one neighbor
C30_Witness ==
    /\ pc = "done" /\ node_count(graph) = 2 /\ EdgeTotal(graph) >= 3
    /\ \E u \in DOMAIN graph.map : \E v \in Neighbors(graph, u) \ {u} :
           /\ u \in Neighbors(graph, v)
           /\ is_some(graph.map[v].distance_to_start)
           /\ is_some(graph.map[v].distance_to_solution)
    /\ \E u \in DOMAIN graph.map :
           \E i \in 1..Len(graph.map[u].edges) : \E j \in 1..Len(graph.map[u].edges) :
               i # j /\ graph.map[u].edges[i].neighbor = graph.map[u].edges[j].neighbor

---------------------------------------------------------------------------
(* Claims about WiggersGraaf, under SpecUI *)

\* C24: after Solver::new() has returned no operation of the UI facade
\* (preview_move, cancel_preview, do_move, restart, with set_state and collect_moves
\* inside them) changes the graph: the nodes, their edges and their distance labels
\* stay as built.
C24_FacadeKeepsGraph ==
    [][pc = "done" =>
          /\ graph' = graph
          /\ start_board' = start_board /\ solution_node' = solution_node]_vars

\* a move has been made and finished, another one is going on and the page has called
\* restart meanwhile
C24_Witness ==
    /\ pc = "done"
    /\ ui.move_lock /\ is_some(ui.move_info)
    /\ ui.op = "restart" /\ ui.returned = None
    /\ is_some(ui.active_state)
    /\ unwrap(ui.active_state) # to_id(start_board)
    /\ Len(ui.moves) >= 2

---------------------------------------------------------------------------
(* Claims about the effect of add_edge and of make_move *)

\* C31: add_edge(from, to, m) with from present appends exactly one edge
\* (to_id(to), m) at the end of from's edge list, also when the list holds that
\* edge already, and changes nothing else: no other node, no distance field, not
\* node_count().
C31_AddEdgeAppendsOne ==
    (op = "add_edge" /\ to_id(board) \in DOMAIN result.graph.map) =>
        LET from == to_id(board)
            old == result.graph.map[from]
            new == graph.map[from]
        IN  /\ pc # "panic"
            /\ DOMAIN graph.map = DOMAIN result.graph.map
            /\ node_count(graph) = node_count(result.graph)
            /\ Len(new.edges) = Len(old.edges) + 1
            /\ SubSeq(new.edges, 1, Len(old.edges)) = old.edges
            /\ new.edges[Len(new.edges)] = Edge(to_id(result.to), slide_move)
            /\ new.board = old.board
            /\ new.distance_to_start = old.distance_to_start
            /\ new.distance_to_solution = old.distance_to_solution
            /\ new.on_shortest_path = old.on_shortest_path
            /\ \A id \in DOMAIN graph.map \ {from} : graph.map[id] = result.graph.map[id]
            /\ graph.max_distance_to_start = result.graph.max_distance_to_start
            /\ graph.max_distance_to_solution = result.graph.max_distance_to_solution

\* add_edge was called on an analysed graph with an edge the node held already
C31_Witness ==
    /\ op = "add_edge" /\ pc = "done"
    /\ \E k \in 1..Len(result.graph.map[to_id(board)].edges) :
           result.graph.map[to_id(board)].edges[k] = Edge(to_id(result.to), slide_move)
    /\ is_some(graph.map[to_id(board)].distance_to_start)
    /\ is_some(graph.map[to_id(board)].distance_to_solution)
    /\ \E id \in DOMAIN graph.map \ {to_id(board)} : graph.map[id].edges # <<>>

\* start moved by distance cells along direction
Shifted(start, direction, distance) ==
    CASE direction = "Up" -> Coordinates(start.x, start.y + distance)
      [] direction = "Down" -> Coordinates(start.x, start.y - distance)
      [] direction = "Left" -> Coordinates(start.x - distance, start.y)
      [] direction = "Right" -> Coordinates(start.x + distance, start.y)

\* the sizes of the pieces of b, each with the number of pieces that have it
SizeCounts(b) ==
    [size \in {b.pieces[i].size : i \in 1..Len(b.pieces)} |->
        Cardinality({i \in 1..Len(b.pieces) : b.pieces[i].size = size})]

\* `new` holds the pieces of `old` but for p, which is replaced by q
ReplacesOne(old, new, p, q) ==
    /\ Len(new) = Len(old)
    /\ \A x \in entries(old) \cup entries(new) \cup {p, q} :
           CountOf(new, x) + (IF x = p THEN 1 ELSE 0)
               = CountOf(old, x) + (IF x = q THEN 1 ELSE 0)

\* C32: a successful make_move(b, m) changes the position of exactly one piece, the
\* one at m.start, by m.distance cells along m.direction, changes no piece's size
\* and keeps the board size; so the sizes of the pieces stay the same, each as often
\* as before.
C32_MoveChangesOnePosition ==
    (op = "make_move" /\ result.ok) =>
        /\ result.board.size = board.size
        /\ SizeCounts(result.board) = SizeCounts(board)
        /\ \E i \in 1..Len(board.pieces) :
               /\ board.pieces[i].position = slide_move.start
               /\ ReplacesOne(board.pieces, result.board.pieces, board.pieces[i],
                              [position |-> Shifted(slide_move.start, slide_move.direction,
                                                    slide_move.distance),
                               size |-> board.pieces[i].size])

\* a piece larger than one cell has been moved to another place in the order
C32_Witness ==
    /\ op = "make_move" /\ result.ok /\ slide_move.distance >= 1
    /\ \E i \in 1..Len(board.pieces) :
           /\ board.pieces[i].position = slide_move.start
           /\ board.pieces[i].size.x + board.pieces[i].size.y >= 3
           /\ result.board.pieces[i].size # board.pieces[i].size

\* every board of the graph but the anchor has the piece sizes of the start board
C32_DiscoveredSizes ==
    \A id \in DOMAIN graph.map \ {to_id(solution_node)} :
        SizeCounts(graph.map[id].board) = SizeCounts(start_board)

---------------------------------------------------------------------------
(* Claims about what the views read from the finished graph *)

\* the board has a piece whose position is c
HasPieceAt(b, c) == \E i \in 1..Len(b.pieces) : b.pieces[i].position = c

\* C33: in the finished graph, for every node and every one of its edges (the
\* synthetic ones and those of the anchor included) the node's board has a piece
\* whose position is the edge's slide_move.start, so collect_pieces finds a piece
\* for every move.
C33_MovesStartAtPieces ==
    pc # "new" =>
        \A id \in DOMAIN graph.map :
            \A k \in 1..Len(graph.map[id].edges) :
                HasPieceAt(graph.map[id].board, graph.map[id].edges[k].slide_move.start)

\* the graph is finished, with synthetic edges at the anchor and at a solution that
\* also has edges of moves of other pieces
C33_Witness ==
    /\ pc = "done"
    /\ graph.map[to_id(solution_node)].edges # <<>>
    /\ \E id \in DOMAIN graph.map \ {to_id(solution_node)} :
           /\ \E k \in 1..Len(graph.map[id].edges) :
                  graph.map[id].edges[k] = Edge(to_id(solution_node), fake_move)
           /\ \E k \in 1..Len(graph.map[id].edges) :
                  graph.map[id].edges[k].slide_move.start # fake_move.start

---------------------------------------------------------------------------
(* Claims about the board view's Controls, under SpecControls *)

\* the forwarded events from the Down at j to the event at k are those of one drag:
\* a handled Down of the pointer, then nothing but its Moves
OneDrag(forwarded, j, k) ==
    /\ forwarded[j].event = "Down" /\ forwarded[j].handled
    /\ forwarded[j].index = forwarded[k].index
    /\ \A l \in (j + 1)..(k - 1) :
           forwarded[l].event = "Move" /\ forwarded[l].index = forwarded[k].index

\* the handled Down whose drag has not ended with an Up, if there is one
OpenDrags(forwarded) ==
    {j \in 1..Len(forwarded) :
        /\ forwarded[j].event = "Down" /\ forwarded[j].handled
        /\ \A l \in (j + 1)..Len(forwarded) : forwarded[l].event # "Up"}

\* C37: the board view's Controls track at most one pointer: a Down is forwarded only
\* while no pointer is tracked, the pointer is adopted only if the callback reports
\* the Down handled, Move and Up are forwarded only for the tracked pointer and Up
\* ends the tracking; so every forwarded Move or Up follows a handled Down of the
\* same pointer with no Up in between.
C37_OnePointerTracked ==
    pc = "controls" =>
        /\ \A k \in 1..Len(ui.forwarded) :
               IF ui.forwarded[k].event = "Down"
               THEN OpenDrags(SubSeq(ui.forwarded, 1, k - 1)) = {}
               ELSE \E j \in 1..(k - 1) : OneDrag(ui.forwarded, j, k)
        /\ Cardinality(OpenDrags(ui.forwarded)) <= 1
        /\ IF is_some(ui.drag_pointer_index)
           THEN \E j \in OpenDrags(ui.forwarded) :
                    ui.forwarded[j].index = unwrap(ui.drag_pointer_index)
           ELSE OpenDrags(ui.forwarded) = {}

\* a Down that was not handled, then a drag of the other pointer with a Move, ended
\* by its Up
C37_Witness ==
    /\ pc = "controls" /\ Len(ui.forwarded) = 4
    /\ ui.forwarded[1] = Forwarded("Down", 1, FALSE)
    /\ ui.forwarded[2] = Forwarded("Down", 2, TRUE)
    /\ ui.forwarded[3].event = "Move" /\ ui.forwarded[4].event = "Up"
    /\ ~is_some(ui.drag_pointer_index)

---------------------------------------------------------------------------
(* Claims about the lock, the frames and the done signal, under SpecUI *)

\* what the page sees of the views
Displayed(u) == <<u.active_state, u.moves, u.dynamic_element, u.move_info, u.move_lock>>

\* C34: at most one move is in progress. While a do_move holds the lock, a further
\* do_move or restart returns None and preview_move and cancel_preview do nothing,
\* all leaving what is displayed as it was; the move that finishes shows its
\* resulting board and frees the lock, and a do_move that finds the lock free is
\* accepted and holds it.
C34_OneMoveAtATime ==
    [][/\ (ui.move_lock
             /\ ui'.op \in {"do_move", "restart", "preview_move", "cancel_preview"})
          => (ui'.returned = None /\ Displayed(ui') = Displayed(ui))
       /\ (ui'.op = "do_move_done" /\ ui'.op # ui.op /\ pc' = "done")
          => (/\ ui.move_lock /\ ~ui'.move_lock
              /\ ui'.active_state = Some(unwrap(ui.move_info).resulting_id)
              /\ ui'.move_info = None)
       /\ (~ui.move_lock /\ pc = "done" /\ ui'.op = "do_move" /\ ui' # ui)
          => (/\ ui'.move_lock
              /\ is_some(ui'.move_info)
              /\ unwrap(ui'.move_info) \in entries(ui.moves)
              /\ ui'.active_state = ui.active_state)
       /\ (ui.move_lock <=> is_some(ui.move_info))]_vars

\* a second move has been accepted after a first one finished, and a do_move made
\* while it is going on was refused
C34_Witness ==
    /\ pc = "done"
    /\ ui.move_lock
    /\ ui.op = "do_move" /\ ui.returned = None
    /\ ui.move_done = "waiting"
    /\ is_some(ui.dynamic_element.start_time)
    /\ unwrap(ui.active_state) # to_id(start_board)

\* C35: the FrameScheduler keeps at most one request pending, the flag says
\* whether there is one, and a frame is pending whenever the board view animates:
\* the schedule() of draw inside the frame callback has requested the next frame.
C35_OneFramePending ==
    /\ ui.frame_requests <= 1
    /\ ui.frame_requested <=> ui.frame_requests = 1
    /\ (pc = "done" /\ ui.dynamic_element.kind = "Animation") => ui.frame_requests = 1

\* a frame callback has run that found the animation unfinished, and the next
\* frame is requested
C35_Witness ==
    /\ pc = "done"
    /\ ui.op = "frame"
    /\ ui.dynamic_element.kind = "Animation"
    /\ is_some(ui.dynamic_element.start_time)
    /\ ui.frame_requested /\ ui.frame_requests = 1

\* the done signal of an animation is sent at most once; the receiver a do_move
\* awaits is never dropped unsent, and while it has not been resolved the animation
\* of that do_move is still the dynamic element, its sender in place
SignalSentOnce ==
    /\ ui.signals <= 1
    /\ ui.move_done # "canceled"
    /\ ui.move_done = "waiting" =>
           /\ ui.dynamic_element.kind = "Animation"
           /\ ui.dynamic_element.done_sender = Some("do_move")
           /\ ui.dynamic_element.animation =
                  Animation(unwrap(ui.move_info).slide_move, "None")

\* the signal is sent in the step in which the animation of a waiting do_move
\* finishes in update_to or is replaced by start_drag
SentWhenReplaced ==
    (ui.move_done = "waiting" /\ ui'.dynamic_element.kind # "Animation")
        => (ui'.move_done = "sent" /\ ui'.signals = 1)

\* C36: the done signal of an animation is sent at most once; it is sent when the
\* animation of a waiting do_move finishes in update_to or is replaced, the receiver
\* is never dropped unsent, and every do_move that waits is woken and finishes.
C36_DoneSignal ==
    /\ []SignalSentOnce
    /\ [][SentWhenReplaced]_vars
    /\ (ui.move_lock ~> ~ui.move_lock)

\* the animation of a waiting do_move was replaced by a drag, and the signal sent
C36_Witness ==
    /\ pc = "done"
    /\ ui.move_done = "sent"
    /\ ui.dynamic_element.kind = "Drag"
    /\ ui.signals = 1

---------------------------------------------------------------------------
(* Claims about the move list, under Spec *)

\* the edges of node id that do not lead to the solved anchor, in their order
RealEdges(id) ==
    SelectSeq(graph.map[id].edges, LAMBDA e : e.neighbor # to_id(solution_node))

\* the number of entries of a list that are for slide_move m to board n
EntriesFor(list, m, n) ==
    Cardinality({k \in 1..Len(list) : list[k].slide_move = m /\ list[k].resulting_id = n})

\* the number of edges of a list that are slide_move m to board n
EdgesFor(list, m, n) ==
    Cardinality({k \in 1..Len(list) : list[k].slide_move = m /\ list[k].neighbor = n})

\* C39: for every node of the finished graph collect_moves returns one entry per
\* outgoing edge whose neighbor is not the solved anchor and no other entry, in the
\* order of non-decreasing resulting_distance, each with the neighbor's
\* distance_to_solution and with effectiveness Positive, Neutral or Negative as that
\* distance is less than, equal to or greater than the node's own.
C39_MoveListOfEdges ==
    pc = "done" =>
        \A id \in DOMAIN graph.map :
            LET r == collect_moves(graph, graph.map[id])
                real == RealEdges(id)
                own == unwrap(graph.map[id].distance_to_solution)
            IN  /\ ~r.panic
                /\ Len(r.moves) = Len(real)
                /\ \A e \in entries(real) :
                       EntriesFor(r.moves, e.slide_move, e.neighbor)
                           = EdgesFor(real, e.slide_move, e.neighbor)
                /\ \A k \in 1..(Len(r.moves) - 1) :
                       r.moves[k].resulting_distance <= r.moves[k + 1].resulting_distance
                /\ \A move_info \in entries(r.moves) :
                       LET d == unwrap(graph.map[move_info.resulting_id].distance_to_solution)
                       IN  /\ move_info.resulting_distance = d
                           /\ move_info.effectiveness = "Positive" <=> d < own
                           /\ move_info.effectiveness = "Neutral" <=> d = own
                           /\ move_info.effectiveness = "Negative" <=> d > own

\* the graph is finished with a solved board whose synthetic edge is hidden from a
\* list of two moves or more, and a board whose list has a Positive, a Neutral and a
\* Negative move
C39_Witness ==
    /\ pc = "done"
    /\ \E id \in DOMAIN graph.map :
           /\ Len(RealEdges(id)) < Len(graph.map[id].edges)
           /\ id # to_id(solution_node)
           /\ Len(collect_moves(graph, graph.map[id]).moves) >= 2
    /\ \E id \in DOMAIN graph.map :
           {move_info.effectiveness : move_info \in
                entries(collect_moves(graph, graph.map[id]).moves)}
               = {"Positive", "Neutral", "Negative"}

---------------------------------------------------------------------------
(* Claims about auto-solve, under SpecAutoSolve *)

\* the step in which do_best_move has its move accepted
AutoSolveMoves == ui'.op = "do_best_move" /\ ~ui.move_lock /\ ui'.move_lock

\* the step in which set_data switches auto-solve off
AutoSolveStops ==
    ui.auto_solve_enabled /\ ~ui'.auto_solve_enabled /\ ui'.op = "do_move_done"

=============================================================================
